---- MODULE Spec2Model ----
(***************************************************************************)
(* Police-Thief chase game (src/game.py): the vehicle decision engine and  *)
(* the tick loop that drives it.                                           *)
(*                                                                         *)
(* Numbers.  The program computes with Python floats.  Every real-valued   *)
(* quantity of the program (lateral position x, distance, speed, scores,   *)
(* costs) is represented here as an integer number of thousandths:         *)
(* K(8) is the speed 8.0, K(499) the position 499.  A product with a       *)
(* decimal factor f is written as (v * n) \div d with n/d = f; where the   *)
(* exact result is not a whole number of thousandths it is rounded down.   *)
(***************************************************************************)
EXTENDS Integers, Sequences, FiniteSets, TLC

K(n) == n * 1000

Abs(v) == IF v < 0 THEN -v ELSE v
Min(a, b) == IF a < b THEN a ELSE b
Max(a, b) == IF a > b THEN a ELSE b

RECURSIVE Sum(_)
Sum(s) == IF s = <<>> THEN 0 ELSE Head(s) + Sum(Tail(s))

(* ----------------------------- track ----------------------------------- *)
SCREEN_WIDTH == 1000
ROAD_WIDTH == 500
ROAD_X == (SCREEN_WIDTH - ROAD_WIDTH) \div 2
FINISH_LINE_DISTANCE == 50000
LANE_WIDTH == ROAD_WIDTH \div 3

Lanes == 0 .. 2

(* lane_positions of every controller: the three lane centres (333, 499, 665) *)
lane_positions(lane) == K(ROAD_X + lane * LANE_WIDTH + LANE_WIDTH \div 2)

(* get_lane_from_x / _get_current_lane: first lane whose centre is nearer    *)
(* than LANE_WIDTH // 2, the centre lane when there is none                 *)
get_lane_from_x(x) ==
    IF \E i \in Lanes : Abs(x - lane_positions(i)) < K(LANE_WIDTH \div 2)
    THEN CHOOSE i \in Lanes :
            /\ Abs(x - lane_positions(i)) < K(LANE_WIDTH \div 2)
            /\ \A j \in Lanes : Abs(x - lane_positions(j)) < K(LANE_WIDTH \div 2) => i <= j
    ELSE 1

(* road band every steering statement clamps to *)
RoadLeft == K(ROAD_X + 35)
RoadRight == K(ROAD_X + ROAD_WIDTH - 35)

(* inp, out: the arguments and the result of a controller exercised on its  *)
(* own.  The others are the locals of main(): the two vehicles, the traffic  *)
(* and power-up lists, the effect timers, the loop's own state (game) and    *)
(* last, a record of the most recent priority_decision_hierarchy call.       *)
VARIABLES inp, out, player, police, traffic, power_ups, timers, game, last

race_vars == <<player, police, traffic, power_ups, timers, game, last>>

vars == <<inp, out, player, police, traffic, power_ups, timers, game, last>>

(* main() has not been entered while a controller is exercised on its own *)
NoRace ==
    /\ player = <<>>
    /\ police = <<>>
    /\ traffic = <<>>
    /\ power_ups = <<>>
    /\ timers = <<>>
    /\ game = <<>>
    /\ last = <<>>

(* ------------------- Minimax: evaluation and terminal test -------------- *)

(* MinimaxDecisionMaker._count_traffic_ahead *)
count_traffic_ahead(state, lane, distance, look_ahead) ==
    Cardinality({i \in DOMAIN state.traffic :
        /\ state.traffic[i][1] = lane
        /\ 0 < state.traffic[i][2] - distance
        /\ state.traffic[i][2] - distance < look_ahead})

(* one power-up's term of _evaluate_state *)
powerup_term(state, pw) ==
    IF pw.for_police
    THEN LET d == Abs(pw.distance - state.police_distance) IN
         IF d < K(200)
         THEN (IF pw.type \in {"turbo", "emp"} THEN K(200) - d ELSE K(100) - d)
         ELSE 0
    ELSE LET d == Abs(pw.distance - state.thief_distance) IN
         IF d < K(200)
         THEN (IF pw.type \in {"freeze", "boost", "ghost"} THEN -(K(250) - d) ELSE -(K(120) - d))
         ELSE 0

(* the proximity tier of _evaluate_state for 0 < distance_diff *)
distance_tier(distance_diff) ==
    IF distance_diff < K(50) THEN K(5000) - distance_diff * 80
    ELSE IF distance_diff < K(150) THEN K(3000) - distance_diff * 15
    ELSE IF distance_diff < K(300) THEN K(1500) - distance_diff * 4
    ELSE K(500) - distance_diff

(* MinimaxDecisionMaker._evaluate_state (score in thousandths) *)
evaluate_state(state) ==
    LET distance_diff == state.thief_distance - state.police_distance
        lane_diff == Abs(state.police_lane - state.thief_lane)
        speed_diff == state.police_speed - state.thief_speed
        police_immediate_traffic == count_traffic_ahead(state, state.police_lane, state.police_distance, K(150))
        police_near_traffic ==
            count_traffic_ahead(state, state.police_lane, state.police_distance, K(300)) - police_immediate_traffic
        thief_traffic_ahead == count_traffic_ahead(state, state.thief_lane, state.thief_distance, K(300))
        distance_to_finish == K(FINISH_LINE_DISTANCE) - state.thief_distance
        police_lane_clear ==
            \A i \in DOMAIN state.traffic :
                state.traffic[i][1] = state.police_lane
                    => ~(Abs(state.traffic[i][2] - state.police_distance) < K(400))
    IN  IF distance_diff <= 0 THEN K(10000)
        ELSE distance_tier(distance_diff)
             - lane_diff * K(150)
             + speed_diff * 50
             - police_immediate_traffic * K(800)
             - police_near_traffic * K(200)
             + thief_traffic_ahead * K(80)
             + Sum([i \in DOMAIN state.powerups |-> powerup_term(state, state.powerups[i])])
             - (IF distance_to_finish < K(5000) THEN (K(5000) - distance_to_finish) * 2 ELSE 0)
             + (IF police_lane_clear THEN K(150) ELSE 0)

(* MinimaxDecisionMaker._is_terminal *)
is_terminal(state) ==
    \/ state.police_distance >= state.thief_distance - K(30)
    \/ state.thief_distance >= K(FINISH_LINE_DISTANCE)

(* ---------------- Minimax evaluation on abstracted game states ---------- *)
MaxSnapshot == 1

SeqsUpTo(S, n) == UNION {[1 .. m -> S] : m \in 0 .. n}

(* GameState values as ai_decision_minimax builds them: lanes of both cars,  *)
(* float distances and speeds, traffic and power-ups within 1000 units       *)
MinimaxGaps == {-K(40), 0, K(10), K(30), K(31), K(120), K(450)}

MinimaxStatesAt(td) ==
    {[police_lane |-> pl, police_distance |-> td - g,
      thief_lane |-> tl, thief_distance |-> td,
      police_speed |-> ps, thief_speed |-> ts,
      traffic |-> [i \in DOMAIN t |-> <<t[i][1], td - K(450) + t[i][2]>>],
      powerups |-> pw] :
        pl \in Lanes, tl \in Lanes, g \in MinimaxGaps,
        ps \in {K(3), K(8)}, ts \in {K(5)},
        t \in SeqsUpTo(Lanes \X {K(100), K(250)}, MaxSnapshot),
        pw \in SeqsUpTo({[lane |-> 1, distance |-> td - K(300), type |-> "emp", for_police |-> TRUE],
                         [lane |-> 1, distance |-> td + K(150), type |-> "ghost", for_police |-> FALSE]},
                        MaxSnapshot)}

InitMinimax ==
    /\ \E td \in {K(1000), K(49500), K(FINISH_LINE_DISTANCE)} : inp \in MinimaxStatesAt(td)
    /\ out = [kind |-> "none"]
    /\ NoRace

(* one leaf of _minimax_alpha_beta: the terminal test, then the evaluation *)
MinimaxEvaluate ==
    /\ out.kind = "none"
    /\ out' = [kind |-> "eval", terminal |-> is_terminal(inp), value |-> evaluate_state(inp)]
    /\ UNCHANGED <<inp, race_vars>>

NextMinimax == MinimaxEvaluate

SpecMinimax == InitMinimax /\ [][NextMinimax]_vars

(* C10: every state that _is_terminal classifies as terminal by capture      *)
(* proximity (police_distance >= thief_distance - 30) is scored 10000 by     *)
(* _evaluate_state.  The code gives 10000 only from distance_diff <= 0.      *)
C10_CaptureTerminalScoredMax ==
    (out.kind = "eval" /\ inp.police_distance >= inp.thief_distance - K(30))
        => out.value = K(10000)

(* ------------------------ traffic snapshots ----------------------------- *)
MaxCarsPerLane == 1

RECURSIVE SetToSeq(_)
SetToSeq(S) ==
    IF S = {} THEN <<>>
    ELSE LET m == CHOOSE v \in S : \A w \in S : v <= w
         IN  <<m>> \o SetToSeq(S \ {m})

(* TrafficCar.__init__: a car sits on the centre of its lane *)
TrafficCar(lane, distance, speed) ==
    [lane |-> lane, x |-> lane_positions(lane), distance |-> distance, speed |-> speed]

LaneCars(lane, offs, base, speed) ==
    LET o == SetToSeq(offs)
    IN  [i \in DOMAIN o |-> TrafficCar(lane, base + o[i], speed)]

(* every placement of at most MaxCarsPerLane cars per lane at the offsets    *)
(* Offsets from base                                                         *)
TrafficAround(base, Offsets, speed) ==
    LET Choices == {c \in SUBSET Offsets : Cardinality(c) <= MaxCarsPerLane}
    IN  {LaneCars(0, f[0], base, speed) \o LaneCars(1, f[1], base, speed)
            \o LaneCars(2, f[2], base, speed) : f \in [Lanes -> Choices]}

(* ------------------------ CSP decision maker ---------------------------- *)
NoOpponent == [present |-> FALSE]

SpeedActions == <<"accelerate", "maintain", "brake">>

(* the domain built by solve_lane_decision, in generation order *)
csp_actions ==
    [i \in 1 .. 9 |->
        [lane |-> (i - 1) \div 3,
         lane_x |-> lane_positions((i - 1) \div 3),
         speed_action |-> SpeedActions[((i - 1) % 3) + 1]]]

(* CSPDecisionMaker._satisfies_hard_constraints *)
satisfies_hard_constraints(action, vehicle, traffic_cars, ghost_mode) ==
    /\ ghost_mode \/
        \A i \in DOMAIN traffic_cars :
            get_lane_from_x(traffic_cars[i].x) = action.lane
                => ~(/\ Abs(traffic_cars[i].distance - vehicle.distance) < K(120)
                     /\ Abs(traffic_cars[i].x - action.lane_x) < K(40))
    /\ ~(action.lane_x < RoadLeft \/ action.lane_x > RoadRight)
    /\ ~(/\ Abs(action.lane - get_lane_from_x(vehicle.x)) > 1
         /\ vehicle.speed > K(6))

(* CSPDecisionMaker._score_police_pursuit *)
score_police_pursuit(action, vehicle, opponent) ==
    IF ~opponent.present THEN 0
    ELSE LET thief_lane == get_lane_from_x(opponent.x)
             distance_to_thief == Abs(opponent.distance - vehicle.distance)
         IN  (IF action.lane = thief_lane THEN K(50)
              ELSE -(Abs(action.lane - thief_lane) * K(15)))
             + (IF action.speed_action = "accelerate" /\ distance_to_thief > K(100) THEN K(30)
                ELSE IF action.speed_action = "maintain" /\ distance_to_thief < K(100) THEN K(20)
                ELSE 0)
             + (IF opponent.distance > vehicle.distance /\ action.lane = thief_lane
                THEN K(40) ELSE 0)

(* CSPDecisionMaker._score_thief_escape *)
score_thief_escape(action, vehicle, opponent) ==
    IF ~opponent.present THEN 0
    ELSE LET police_lane == get_lane_from_x(opponent.x)
             distance_to_police == Abs(opponent.distance - vehicle.distance)
         IN  (IF action.lane # police_lane THEN K(35) ELSE -K(25))
             + (IF distance_to_police > K(200) /\ action.speed_action = "accelerate" THEN K(25)
                ELSE IF distance_to_police < K(150) /\ action.lane # police_lane THEN K(40)
                ELSE 0)
             + (IF vehicle.distance > opponent.distance THEN K(20) ELSE 0)

(* value table of _score_powerup_collection *)
csp_powerup_value(is_police, power_type) ==
    IF is_police
    THEN CASE power_type = "emp" -> K(18)
           [] power_type = "turbo" -> K(15)
           [] power_type = "magnet" -> K(14)
           [] power_type = "spike" -> K(12)
           [] power_type = "roadblock" -> K(10)
           [] OTHER -> 0
    ELSE CASE power_type = "freeze" -> K(15)
           [] power_type = "shield" -> K(12)
           [] power_type = "boost" -> K(10)
           [] OTHER -> 0

(* CSPDecisionMaker._score_powerup_collection *)
score_powerup_collection(action, vehicle, powerups) ==
    Sum([i \in DOMAIN powerups |->
        LET powerup == powerups[i]
            distance_to_powerup == powerup.distance - vehicle.distance
        IN  IF \/ powerup.collected
               \/ vehicle.is_police # powerup.for_police
               \/ ~(0 < distance_to_powerup /\ distance_to_powerup < K(600))
               \/ action.lane # powerup.lane
            THEN 0
            ELSE Max(0, K(50) - distance_to_powerup \div 10)
                 + csp_powerup_value(vehicle.is_police, powerup.type)])

(* CSPDecisionMaker._score_traffic_clearance *)
score_traffic_clearance(action, vehicle, traffic_cars) ==
    LET ahead == {i \in DOMAIN traffic_cars :
                    /\ get_lane_from_x(traffic_cars[i].x) = action.lane
                    /\ 0 < traffic_cars[i].distance - vehicle.distance
                    /\ traffic_cars[i].distance - vehicle.distance < K(400)}
        min_clearance ==
            IF ahead = {} THEN K(1000)
            ELSE LET j == CHOOSE j \in ahead : \A k \in ahead :
                                traffic_cars[j].distance <= traffic_cars[k].distance
                 IN  traffic_cars[j].distance - vehicle.distance
    IN  (IF min_clearance > K(300) THEN K(30)
         ELSE IF min_clearance > K(200) THEN K(20)
         ELSE IF min_clearance > K(100) THEN K(10)
         ELSE -K(20))
        - Cardinality(ahead) * K(8)

(* speed scoring in which braking is rewarded instead of penalised *)
score_speed_optimization_brake_bonus(action, vehicle) ==
    IF action.speed_action = "brake" THEN K(50) ELSE 0

(* CSPDecisionMaker._score_speed_optimization *)
score_speed_optimization(action, vehicle) ==
    IF action.speed_action = "accelerate" /\ vehicle.speed * 10 < vehicle.max_speed * 9 THEN K(15)
    ELSE IF action.speed_action = "maintain" /\ vehicle.speed * 10 > vehicle.max_speed * 7 THEN K(10)
    ELSE IF action.speed_action = "brake" THEN -K(5)
    ELSE 0

(* CSPDecisionMaker._score_lane_preference *)
score_lane_preference(action, vehicle) ==
    (IF action.lane = 1 THEN K(5) ELSE 0)
    - (IF action.lane # get_lane_from_x(vehicle.x) THEN K(3) ELSE 0)

(* CSPDecisionMaker._calculate_utility_score *)
calculate_utility_score(action, vehicle, traffic_cars, powerups, opponent) ==
    (IF vehicle.is_police
     THEN score_police_pursuit(action, vehicle, opponent)
     ELSE score_thief_escape(action, vehicle, opponent)
          + score_powerup_collection(action, vehicle, powerups))
    + score_traffic_clearance(action, vehicle, traffic_cars)
    + score_speed_optimization(action, vehicle)
    + score_lane_preference(action, vehicle)

(* Python's max(valid_actions, key=...): scan in order, keep the first of    *)
(* the largest key (best = 0 while nothing has been seen)                    *)
RECURSIVE first_max(_, _, _, _, _)
first_max(valid, key, i, best, best_key) ==
    IF i > 9 THEN best
    ELSE IF i \notin valid THEN first_max(valid, key, i + 1, best, best_key)
    ELSE LET k == key[i]
         IN  IF best = 0 \/ k > best_key
             THEN first_max(valid, key, i + 1, i, k)
             ELSE first_max(valid, key, i + 1, best, best_key)

(* solver that maximises utility over the whole domain, valid or not *)
solve_lane_decision_unfiltered(vehicle, traffic_cars, powerups, opponent, ghost_mode) ==
    LET score == [i \in 1 .. 9 |->
                    calculate_utility_score(csp_actions[i], vehicle, traffic_cars, powerups, opponent)]
    IN  csp_actions[first_max(1 .. 9, score, 1, 0, 0)]

(* CSPDecisionMaker.solve_lane_decision: the first action of maximal utility *)
(* among those that satisfy the hard constraints, else (current lane, brake) *)
solve_lane_decision(vehicle, traffic_cars, powerups, opponent, ghost_mode) ==
    LET valid == {i \in 1 .. 9 :
                    satisfies_hard_constraints(csp_actions[i], vehicle, traffic_cars, ghost_mode)}
        score == [i \in valid |->
                    calculate_utility_score(csp_actions[i], vehicle, traffic_cars, powerups, opponent)]
        current_lane == get_lane_from_x(vehicle.x)
    IN  IF valid = {}
        THEN [lane |-> current_lane, lane_x |-> lane_positions(current_lane), speed_action |-> "brake"]
        ELSE csp_actions[first_max(valid, score, 1, 0, 0)]

(* ---------------- CSP solver on abstracted situations -------------------- *)
CSPBase == K(2000)

(* a vehicle on a lane centre (333, 499) or between two lanes (416)           *)
CSPVehicles ==
    {[x |-> x, distance |-> CSPBase, speed |-> s, max_speed |-> K(8), is_police |-> p] :
        x \in {lane_positions(0), lane_positions(1), K(416)},
        s \in {K(2), 6500, K(8)}, p \in BOOLEAN}

CSPOpponents ==
    {NoOpponent} \cup
    {[present |-> TRUE, x |-> lane_positions(l), distance |-> CSPBase + d] :
        <<l, d>> \in {<<0, -K(120)>>, <<2, K(250)>>}}

CSPPowerups ==
    LET freeze == [lane |-> 2, distance |-> CSPBase + K(200), type |-> "freeze",
                   for_police |-> FALSE, collected |-> FALSE]
        emp == [lane |-> 0, distance |-> CSPBase + K(100), type |-> "emp",
                for_police |-> TRUE, collected |-> FALSE]
    IN  {<<>>, <<freeze, emp>>}

InitCSP ==
    /\ inp \in [vehicle : CSPVehicles,
                traffic : TrafficAround(CSPBase, {-K(119), K(120), K(250)}, K(3)),
                powerups : CSPPowerups,
                opponent : CSPOpponents,
                ghost_mode : BOOLEAN]
    /\ inp.vehicle.is_police => inp.powerups = <<>>
    /\ out = [kind |-> "none"]
    /\ NoRace

(* one call of solve_lane_decision *)
CSPSolve ==
    /\ out.kind = "none"
    /\ out' = [kind |-> "csp",
               action |-> solve_lane_decision(inp.vehicle, inp.traffic, inp.powerups,
                                              inp.opponent, inp.ghost_mode)]
    /\ UNCHANGED <<inp, race_vars>>

NextCSP == CSPSolve

SpecCSP == InitCSP /\ [][NextCSP]_vars

(* C7: solve_lane_decision always returns an action whose lane is one of the *)
(* three lanes, and with no traffic and the vehicle centred in a lane the    *)
(* returned speed action is accelerate or maintain, never brake, whatever    *)
(* the speed, role, opponent and power-ups.                                  *)
C7_SolveReturnsInBoundsNonBrake ==
    out.kind = "csp" =>
        /\ out.action.lane \in Lanes
        /\ out.action.lane_x = lane_positions(out.action.lane)
        /\ out.action.speed_action \in {"accelerate", "maintain", "brake"}
        /\ (/\ inp.traffic = <<>>
            /\ \E l \in Lanes : inp.vehicle.x = lane_positions(l))
               => out.action.speed_action \in {"accelerate", "maintain"}

C7_Witness ==
    /\ out.kind = "csp"
    /\ inp.traffic = <<>>
    /\ inp.vehicle.x = lane_positions(0)
    /\ inp.vehicle.speed = K(8)
    /\ inp.opponent.present
    /\ inp.powerups # <<>>
    /\ out.action.speed_action = "maintain"

(* the hard constraints as the specification words them *)
C8_Allowed(a) ==
    /\ inp.ghost_mode \/
        \A i \in DOMAIN inp.traffic :
            ~(/\ Abs(inp.traffic[i].distance - inp.vehicle.distance) < K(120)
              /\ Abs(inp.traffic[i].x - lane_positions(a.lane)) < K(40))
    /\ lane_positions(a.lane) >= K(ROAD_X + 35)
    /\ lane_positions(a.lane) <= K(ROAD_X + ROAD_WIDTH - 35)
    /\ ~(Abs(a.lane - get_lane_from_x(inp.vehicle.x)) > 1 /\ inp.vehicle.speed > K(6))

(* C8: the action returned by solve_lane_decision satisfies every hard       *)
(* constraint (no traffic car within 120 longitudinal and 40 lateral units   *)
(* of the target lane unless ghost mode is on, target lane centre inside the *)
(* road bounds, no two-lane jump when speed > 6), or else all nine candidate *)
(* actions violate them and the action is (current lane, brake).             *)
C8_ReturnedActionValidOrFallback ==
    out.kind = "csp" =>
        \/ C8_Allowed(out.action)
        \/ /\ \A l \in Lanes : ~C8_Allowed([lane |-> l])
           /\ out.action.lane = get_lane_from_x(inp.vehicle.x)
           /\ out.action.speed_action = "brake"

C8_Witness ==
    /\ out.kind = "csp"
    /\ ~inp.ghost_mode
    /\ \A l \in Lanes : ~C8_Allowed([lane |-> l])
    /\ out.action.lane = get_lane_from_x(inp.vehicle.x)
    /\ out.action.speed_action = "brake"

(* ------------------- predictive safety layer ---------------------------- *)
(* float('inf') of min_distance and time_to_collision *)
Infinity == 2000000000

(* safety margins of predictive_safety_check (speed-aware) *)
warning_distance(speed) == K(300) + speed * 35
(* critical margin widened to the warning margin *)
critical_distance_widened(speed) == K(300) + speed * 35
critical_distance(speed) == K(150) + speed * 20
safe_distance(speed) == K(500) + speed * 50

(* prediction_frames = int(40 * max(1.0, speed / 4.0)) *)
prediction_frames(speed) == IF speed > K(4) THEN (40 * speed) \div K(4) ELSE 40

(* the scan "only check obstacles ahead within prediction window" *)
in_prediction_window(vehicle, car) ==
    /\ 0 < car.distance - vehicle.distance
    /\ car.distance - vehicle.distance < vehicle.speed * prediction_frames(vehicle.speed) + K(200)

(* time_to_collision < prediction_frames, with time_to_collision =           *)
(* relative_distance / relative_speed when relative_speed > 0.1, else inf;   *)
(* predicted_gap is then the gap at the moment of contact, below 100         *)
collides_within_window(vehicle, car) ==
    /\ vehicle.speed - car.speed > 100
    /\ car.distance - vehicle.distance
         < prediction_frames(vehicle.speed) * (vehicle.speed - car.speed)

(* time_to_collision of one obstacle, in thousandths of a frame:            *)
(* relative_distance / relative_speed with relative_speed = self.speed -     *)
(* traffic_speed when that exceeds 0.1, else float('inf')                    *)
time_to_collision(vehicle, car) ==
    IF vehicle.speed - car.speed > 100
    THEN ((car.distance - vehicle.distance) * 1000) \div (vehicle.speed - car.speed)
    ELSE Infinity

(* min_ttc: the least time_to_collision over the obstacles of the current    *)
(* lane                                                                      *)
min_ttc(vehicle, traffic_cars) ==
    LET obstacles == {i \in DOMAIN traffic_cars :
                        /\ traffic_cars[i].lane = get_lane_from_x(vehicle.x)
                        /\ in_prediction_window(vehicle, traffic_cars[i])}
        times == {time_to_collision(vehicle, traffic_cars[i]) : i \in obstacles}
    IN  IF times = {} THEN Infinity ELSE CHOOSE t \in times : \A u \in times : t <= u

(* risk added to a lane by one car inside the prediction window *)
car_risk(vehicle, car) ==
    (IF collides_within_window(vehicle, car) THEN 1000 ELSE 0)
    + (IF car.distance - vehicle.distance < critical_distance(vehicle.speed) THEN 800
       ELSE IF car.distance - vehicle.distance < warning_distance(vehicle.speed) THEN 300
       ELSE 0)

(* side collision test: -100 < relative_distance <                           *)
(* speed * (166 / 14) + 100                                                  *)
side_collision_risk(vehicle, car) ==
    /\ -K(100) < car.distance - vehicle.distance
    /\ (car.distance - vehicle.distance - K(100)) * 14 < vehicle.speed * 166

(* lane_analysis[lane] after both scans *)
analyse_lane(vehicle, traffic_cars, current_lane, lane) ==
    LET seen == {i \in DOMAIN traffic_cars :
                    traffic_cars[i].lane = lane /\ in_prediction_window(vehicle, traffic_cars[i])}
        beside == {i \in DOMAIN traffic_cars :
                    /\ lane # current_lane
                    /\ traffic_cars[i].lane = lane
                    /\ side_collision_risk(vehicle, traffic_cars[i])}
        nearest == CHOOSE i \in seen : \A j \in seen :
                        traffic_cars[i].distance <= traffic_cars[j].distance
    IN  [min_distance |-> IF seen = {} THEN Infinity
                          ELSE traffic_cars[nearest].distance - vehicle.distance,
         is_safe |-> /\ \A i \in seen :
                            /\ ~collides_within_window(vehicle, traffic_cars[i])
                            /\ ~(traffic_cars[i].distance - vehicle.distance
                                    < critical_distance(vehicle.speed))
                     /\ beside = {},
         risk_score |-> Sum([i \in DOMAIN traffic_cars |->
                                IF i \in seen THEN car_risk(vehicle, traffic_cars[i]) ELSE 0])
                        + 2000 * Cardinality(beside)]

(* the lanes flagged safe, in lane order *)
flagged_safe(lane_analysis) ==
    SelectSeq(<<0, 1, 2>>, LAMBDA lane : lane_analysis[lane].is_safe)

(* min(lane_analysis.keys(), key=risk_score): the first lane of least risk *)
least_risk_lane(lane_analysis) ==
    CHOOSE lane \in Lanes : \A other \in Lanes :
        \/ lane_analysis[lane].risk_score < lane_analysis[other].risk_score
        \/ lane_analysis[lane].risk_score = lane_analysis[other].risk_score /\ lane <= other

(* safe_lanes without the least-risk fallback *)
safe_lanes_of_no_fallback(lane_analysis) == flagged_safe(lane_analysis)

(* safe_lanes of predictive_safety_check, with its fallback *)
safe_lanes_of(lane_analysis) ==
    IF flagged_safe(lane_analysis) = <<>>
    THEN <<least_risk_lane(lane_analysis)>>
    ELSE flagged_safe(lane_analysis)

(* Vehicle.predictive_safety_check *)
predictive_safety_check(vehicle, traffic_cars) ==
    LET current_lane == get_lane_from_x(vehicle.x)
        lane_analysis == [lane \in Lanes |-> analyse_lane(vehicle, traffic_cars, current_lane, lane)]
        current_lane_info == lane_analysis[current_lane]
        danger_detected == ~current_lane_info.is_safe
        safe_lanes == safe_lanes_of(lane_analysis)
        current_in_safe == \E i \in DOMAIN safe_lanes : safe_lanes[i] = current_lane
        urgency ==
            IF danger_detected
            THEN IF current_lane_info.min_distance < critical_distance(vehicle.speed) THEN "critical"
                 ELSE IF current_lane_info.min_distance < warning_distance(vehicle.speed) THEN "high"
                 ELSE "moderate"
            ELSE IF current_lane_info.min_distance < safe_distance(vehicle.speed) THEN "low"
            ELSE "none"
    IN  [danger_detected |-> danger_detected,
         time_to_collision |-> min_ttc(vehicle, traffic_cars),
         current_lane |-> current_lane,
         safe_lanes |-> safe_lanes,
         lane_analysis |-> lane_analysis,
         urgency |-> urgency,
         brake_intensity |-> CASE urgency = "critical" -> 1000
                               [] urgency = "high" -> 700
                               [] urgency = "moderate" -> 400
                               [] urgency = "low" -> 200
                               [] OTHER -> 0,
         should_change_lane |-> danger_detected /\ ~current_in_safe]

(* ------------- safety layer on abstracted traffic situations ------------- *)
SafetyBase == K(3000)

SafetyVehicles ==
    {[x |-> x, distance |-> SafetyBase, speed |-> s, max_speed |-> K(8), is_police |-> FALSE,
      crashed |-> FALSE, crash_timer |-> 0] :
        x \in {lane_positions(0), lane_positions(1), K(416)},
        s \in {0, 1800, K(5), K(8)}}

InitSafety ==
    /\ \E car_speed \in {K(2), K(4)} :
        inp \in [vehicle : SafetyVehicles,
                 traffic : TrafficAround(SafetyBase, {-K(50), K(50), K(200), K(400)}, car_speed)]
    /\ out = [kind |-> "none"]
    /\ NoRace

(* one call of predictive_safety_check *)
SafetyCheck ==
    /\ out.kind = "none"
    /\ out' = [kind |-> "safety", check |-> predictive_safety_check(inp.vehicle, inp.traffic)]
    /\ UNCHANGED <<inp, race_vars>>

NextSafety == SafetyCheck

SpecSafety == InitSafety /\ [][NextSafety]_vars

(* a traffic car ahead in the vehicle's current lane, closer than 150 + 20 * speed *)
C4_CarInsideCriticalDistance ==
    \E i \in DOMAIN inp.traffic :
        /\ inp.traffic[i].lane = get_lane_from_x(inp.vehicle.x)
        /\ inp.traffic[i].distance > inp.vehicle.distance
        /\ inp.traffic[i].distance - inp.vehicle.distance < K(150) + 20 * inp.vehicle.speed

(* C4: predictive_safety_check reports urgency critical with brake intensity *)
(* 1.0 exactly when the nearest traffic car ahead in the vehicle's current   *)
(* lane is closer than 150 + 20 * speed; in every other case the urgency is  *)
(* not critical and the brake intensity is below 1.0.                        *)
C4_CriticalIffCarInsideCriticalDistance ==
    out.kind = "safety" =>
        IF C4_CarInsideCriticalDistance
        THEN out.check.urgency = "critical" /\ out.check.brake_intensity = 1000
        ELSE out.check.urgency # "critical" /\ out.check.brake_intensity < 1000

C4_Witness ==
    /\ out.kind = "safety"
    /\ inp.vehicle.speed = K(8)
    /\ \E i \in DOMAIN inp.traffic :
        /\ inp.traffic[i].lane = get_lane_from_x(inp.vehicle.x)
        /\ inp.traffic[i].distance = inp.vehicle.distance + K(50)
    /\ out.check.urgency = "critical"
    /\ out.check.brake_intensity = 1000

(* C6: safe_lanes is never empty; it holds every lane flagged safe, and when *)
(* no lane is flagged safe it is exactly the one lane of lowest risk score.  *)
C6_SafeLanesNeverEmpty ==
    out.kind = "safety" =>
        LET safe_lanes == out.check.safe_lanes
            analysis == out.check.lane_analysis
        IN  /\ safe_lanes # <<>>
            /\ \A i \in DOMAIN safe_lanes : safe_lanes[i] \in Lanes
            /\ \A lane \in Lanes :
                analysis[lane].is_safe => \E i \in DOMAIN safe_lanes : safe_lanes[i] = lane
            /\ (\A lane \in Lanes : ~analysis[lane].is_safe) =>
                /\ Len(safe_lanes) = 1
                /\ \A lane \in Lanes :
                    analysis[safe_lanes[1]].risk_score <= analysis[lane].risk_score

C6_Witness ==
    /\ out.kind = "safety"
    /\ \A lane \in Lanes : ~out.check.lane_analysis[lane].is_safe
    /\ Len(out.check.safe_lanes) = 1
    /\ out.check.safe_lanes[1] # out.check.current_lane
    /\ out.check.should_change_lane

(* ------------------- Minimax: the depth-3 search ------------------------ *)
(* MinimaxDecisionMaker.max_depth *)
max_depth == 3

(* MinimaxAction *)
MinimaxAction(lane, speed_change, collect_powerup) ==
    [lane |-> lane, speed_change |-> speed_change, collect_powerup |-> collect_powerup]

(* MinimaxDecisionMaker._powerup_nearby *)
powerup_nearby(state, lane, is_police) ==
    \E i \in DOMAIN state.powerups :
        LET pw == state.powerups[i]
            current_dist == IF is_police THEN state.police_distance ELSE state.thief_distance
        IN  /\ pw.for_police = is_police
            /\ pw.lane = lane
            /\ 0 < pw.distance - current_dist
            /\ pw.distance - current_dist < K(250)

(* the body of the two loops of _generate_actions for one (lane, speed):     *)
(* skipped, put first in a clearer lane or appended, and appended once more  *)
(* with collect_powerup when a power-up of the player is near in that lane   *)
list_action(actions, state, is_police, current_lane, current_distance, lane, speed) ==
    LET traffic_in_current == count_traffic_ahead(state, current_lane, current_distance, K(250))
        traffic_in_lane == count_traffic_ahead(state, lane, current_distance, K(250))
        placed == IF lane # current_lane /\ traffic_in_lane < traffic_in_current
                  THEN <<MinimaxAction(lane, speed, FALSE)>> \o actions
                  ELSE Append(actions, MinimaxAction(lane, speed, FALSE))
    IN  IF lane = current_lane /\ traffic_in_current > 2 /\ speed = "accelerate" THEN actions
        ELSE IF powerup_nearby(state, lane, is_police)
        THEN Append(placed, MinimaxAction(lane, speed, TRUE))
        ELSE placed

RECURSIVE list_actions(_, _, _, _, _, _, _)
list_actions(actions, k, options, state, is_police, current_lane, current_distance) ==
    IF k > Len(options) THEN actions
    ELSE list_actions(list_action(actions, state, is_police, current_lane, current_distance,
                                  options[k][1], options[k][2]),
                      k + 1, options, state, is_police, current_lane, current_distance)

(* MinimaxDecisionMaker._generate_actions, in the order of the list *)
generate_action_list(state, is_police) ==
    LET current_lane == IF is_police THEN state.police_lane ELSE state.thief_lane
        current_distance == IF is_police THEN state.police_distance ELSE state.thief_distance
        lane_options == <<current_lane>>
                        \o (IF current_lane > 0 THEN <<current_lane - 1>> ELSE <<>>)
                        \o (IF current_lane < 2 THEN <<current_lane + 1>> ELSE <<>>)
        speed_options == <<"accelerate", "maintain", "brake">>
        options == [k \in 1 .. 3 * Len(lane_options) |->
                        <<lane_options[((k - 1) \div 3) + 1], speed_options[((k - 1) % 3) + 1]>>]
    IN  list_actions(<<>>, 1, options, state, is_police, current_lane, current_distance)

(* the speed after a simulated action: +0.4 up to 8, -0.6 down to 3 *)
simulated_speed(speed, speed_change) ==
    IF speed_change = "accelerate" THEN Min(speed + 400, K(8))
    ELSE IF speed_change = "brake" THEN Max(speed - 600, K(3))
    ELSE speed

(* MinimaxDecisionMaker._simulate_action *)
simulate_action(state, action, is_police) ==
    IF is_police
    THEN LET speed == simulated_speed(state.police_speed, action.speed_change)
         IN  [state EXCEPT !.police_lane = action.lane, !.police_speed = speed,
                           !.police_distance = @ + speed * 20]
    ELSE LET speed == simulated_speed(state.thief_speed, action.speed_change)
         IN  [state EXCEPT !.thief_lane = action.lane, !.thief_speed = speed,
                           !.thief_distance = @ + speed * 20]

(* the pruning test of _minimax_alpha_beta, a cut-off that also drops        *)
(* branches within 500 of the window                                         *)
cutoff_within_margin(alpha, beta) == beta <= alpha + K(500)

(* the pruning test of _minimax_alpha_beta *)
cutoff(alpha, beta) == beta <= alpha

(* MinimaxDecisionMaker._minimax_alpha_beta while the time budget lasts: the *)
(* value returned and the number of break statements taken below the node;  *)
(* search_actions is the loop over possible_actions from the k-th action on  *)
RECURSIVE minimax_alpha_beta(_, _, _, _, _)
RECURSIVE search_actions(_, _, _, _, _, _, _, _, _)
minimax_alpha_beta(state, depth, alpha, beta, maximizing_player) ==
    IF depth = 0 \/ is_terminal(state)
    THEN [value |-> evaluate_state(state), cutoffs |-> 0]
    ELSE search_actions(state, generate_action_list(state, maximizing_player), 1, depth,
                        alpha, beta, maximizing_player,
                        IF maximizing_player THEN -Infinity ELSE Infinity, 0)

search_actions(state, possible_actions, k, depth, alpha, beta, maximizing_player, best_eval, cutoffs) ==
    IF k > Len(possible_actions) THEN [value |-> best_eval, cutoffs |-> cutoffs]
    ELSE CHOOSE result \in
            {LET new_eval == IF maximizing_player THEN Max(best_eval, child.value)
                             ELSE Min(best_eval, child.value)
                 new_alpha == IF maximizing_player THEN Max(alpha, child.value) ELSE alpha
                 new_beta == IF maximizing_player THEN beta ELSE Min(beta, child.value)
             IN  IF cutoff(new_alpha, new_beta)
                 THEN [value |-> new_eval, cutoffs |-> cutoffs + child.cutoffs + 1]
                 ELSE search_actions(state, possible_actions, k + 1, depth, new_alpha, new_beta,
                                     maximizing_player, new_eval, cutoffs + child.cutoffs) :
             child \in {minimax_alpha_beta(simulate_action(state, possible_actions[k], maximizing_player),
                                           depth - 1, alpha, beta, ~maximizing_player)}} : TRUE

(* best_action = None *)
NoAction == [lane |-> -1, speed_change |-> "none", collect_powerup |-> FALSE]

(* the loop of get_best_move over possible_actions from the k-th action on *)
RECURSIVE best_move_from(_, _, _, _, _, _, _, _, _)
best_move_from(current_state, possible_actions, k, is_police, alpha, beta, best_action, best_value, cutoffs) ==
    IF k > Len(possible_actions)
    THEN [action |-> IF best_action # NoAction THEN best_action ELSE possible_actions[1],
          value |-> best_value, cutoffs |-> cutoffs]
    ELSE CHOOSE result \in
            {LET better == IF is_police THEN child.value > best_value ELSE child.value < best_value
             IN  best_move_from(current_state, possible_actions, k + 1, is_police,
                                IF is_police THEN Max(alpha, child.value) ELSE alpha,
                                IF is_police THEN beta ELSE Min(beta, child.value),
                                IF better THEN possible_actions[k] ELSE best_action,
                                IF better THEN child.value ELSE best_value,
                                cutoffs + child.cutoffs) :
             child \in {minimax_alpha_beta(simulate_action(current_state, possible_actions[k], is_police),
                                           max_depth - 1, alpha, beta, ~is_police)}} : TRUE

(* MinimaxDecisionMaker.get_best_move while the time budget lasts: the       *)
(* action returned, best_value and the number of cut-offs in the search      *)
get_best_move(current_state, is_police) ==
    best_move_from(current_state, generate_action_list(current_state, is_police), 1, is_police,
                   -Infinity, Infinity, NoAction,
                   IF is_police THEN -Infinity ELSE Infinity, 0)

(* the largest and the smallest value of a sequence of values *)
RECURSIVE largest(_, _, _)
largest(values, k, best) ==
    IF k > Len(values) THEN best ELSE largest(values, k + 1, Max(best, values[k]))

RECURSIVE smallest(_, _, _)
smallest(values, k, best) ==
    IF k > Len(values) THEN best ELSE smallest(values, k + 1, Min(best, values[k]))

(* plain minimax to the given depth over the same actions, simulation,       *)
(* terminal test and evaluation, every branch visited                        *)
RECURSIVE minimax_value(_, _, _)
child_values(state, depth, maximizing_player) ==
    LET possible_actions == generate_action_list(state, maximizing_player)
    IN  [k \in DOMAIN possible_actions |->
            minimax_value(simulate_action(state, possible_actions[k], maximizing_player),
                          depth - 1, ~maximizing_player)]

minimax_value(state, depth, maximizing_player) ==
    IF depth = 0 \/ is_terminal(state) THEN evaluate_state(state)
    ELSE CHOOSE value \in
            {IF maximizing_player THEN largest(values, 1, -Infinity)
             ELSE smallest(values, 1, Infinity) :
             values \in {child_values(state, depth, maximizing_player)}} : TRUE

(* the first action of the list whose plain minimax value is the best for    *)
(* the player, with that value                                               *)
exhaustive_best_move(current_state, is_police) ==
    LET possible_actions == generate_action_list(current_state, is_police)
    IN  CHOOSE result \in
            {LET best_value == IF is_police THEN largest(values, 1, -Infinity)
                               ELSE smallest(values, 1, Infinity)
                 first == CHOOSE k \in DOMAIN values :
                            /\ values[k] = best_value
                            /\ \A j \in 1 .. k - 1 : values[j] # best_value
             IN  [action |-> possible_actions[first], value |-> best_value] :
             values \in {child_values(current_state, max_depth, is_police)}} : TRUE

(* ---------------- Minimax search on abstracted game states -------------- *)
(* GameState values around a thief at thief_distance: the police behind by a *)
(* gap, at most one car ahead of the police and at most one power-up of the  *)
(* thief                                                                     *)
SearchStatesAt(thief_distance, gap) ==
    {[police_lane |-> police_lane, police_distance |-> thief_distance - gap,
      thief_lane |-> thief_lane, thief_distance |-> thief_distance,
      police_speed |-> police_speed, thief_speed |-> K(5),
      traffic |-> traffic_snapshot, powerups |-> powerups_snapshot] :
        police_lane \in Lanes, thief_lane \in {0, 1},
        police_speed \in {K(3), K(8)},
        traffic_snapshot \in {<<>>} \cup {<<(<<lane, thief_distance - gap + K(100)>>)>> : lane \in Lanes},
        powerups_snapshot \in {<<>>, <<[lane |-> 1, distance |-> thief_distance + K(150),
                                       type |-> "ghost", for_police |-> FALSE]>>}}

InitSearch ==
    /\ \E thief_distance \in {K(1000), K(FINISH_LINE_DISTANCE) - K(150)}, gap \in {K(40), K(120), K(450)} :
            inp \in [state : SearchStatesAt(thief_distance, gap), is_police : BOOLEAN]
    /\ out = [kind |-> "none"]
    /\ NoRace

(* one call of get_best_move, with the plain minimax answer for the same     *)
(* state and player                                                          *)
SearchBestMove ==
    /\ out.kind = "none"
    /\ out' = [kind |-> "search",
               best |-> get_best_move(inp.state, inp.is_police),
               exhaustive |-> exhaustive_best_move(inp.state, inp.is_police)]
    /\ UNCHANGED <<inp, race_vars>>

NextSearch == SearchBestMove

SpecSearch == InitSearch /\ [][NextSearch]_vars

(* C20: get_best_move returns the action and the root value of plain         *)
(* depth-3 minimax without pruning over the same actions and evaluation, for *)
(* the police (maximizer) and the thief (minimizer).                         *)
C20_PruningKeepsAnswer ==
    out.kind = "search" =>
        /\ out.best.action = out.exhaustive.action
        /\ out.best.value = out.exhaustive.value

(* a search of the thief that pruned branches and returned a move other than *)
(* the first of the list                                                     *)
C20_Witness ==
    /\ out.kind = "search"
    /\ ~inp.is_police
    /\ out.best.cutoffs > 0
    /\ out.best.action # generate_action_list(inp.state, inp.is_police)[1]
    /\ out.best.action = out.exhaustive.action
    /\ out.best.value = out.exhaustive.value

(* --------------------------- A* pathfinder ------------------------------ *)
(* int(v / d) for d > 0: Python truncates toward zero *)
TruncDiv(v, d) == IF v >= 0 THEN v \div d ELSE -((-v) \div d)

RECURSIVE isqrt_between(_, _, _)
isqrt_between(n, lo, hi) ==
    IF lo >= hi THEN lo
    ELSE LET mid == (lo + hi + 1) \div 2
         IN  IF mid * mid <= n THEN isqrt_between(n, mid, hi)
             ELSE isqrt_between(n, lo, mid - 1)

(* AStarPathfinder.manhattan_distance *)
manhattan_distance(current_lane, current_distance, goal_lane, goal_distance) ==
    Abs(current_lane - goal_lane) * K(LANE_WIDTH) + Abs(goal_distance - current_distance)

(* AStarPathfinder.euclidean_distance; the square root is taken on tenths    *)
(* of a unit and rounded down                                                *)
euclidean_distance(current_lane, current_distance, goal_lane, goal_distance) ==
    LET x_diff == (lane_positions(goal_lane) - lane_positions(current_lane)) \div 100
        distance_diff == Abs(goal_distance - current_distance) \div 100
    IN  100 * isqrt_between(x_diff * x_diff + distance_diff * distance_diff, 0, 46340)

(* AStarPathfinder.calculate_heuristic *)
calculate_heuristic(heuristic_type, current_lane, current_distance, goal_lane, goal_distance) ==
    IF heuristic_type = "manhattan"
    THEN manhattan_distance(current_lane, current_distance, goal_lane, goal_distance)
    ELSE euclidean_distance(current_lane, current_distance, goal_lane, goal_distance)

(* is_position_safe without the side-by-side guard on adjacent lanes *)
is_position_safe_same_lane_only(lane, distance, traffic_cars, opponent, ghost_mode, vehicle_speed) ==
    \/ ghost_mode
    \/ /\ \A i \in DOMAIN traffic_cars :
            traffic_cars[i].lane = lane
                => ~(Abs(traffic_cars[i].distance - distance) < K(280) + vehicle_speed * 40)
       /\ opponent.present /\ lane = get_lane_from_x(opponent.x)
            => ~(Abs(opponent.distance - distance) < K(180))

(* AStarPathfinder.is_position_safe *)
is_position_safe(lane, distance, traffic_cars, opponent, ghost_mode, vehicle_speed) ==
    \/ ghost_mode
    \/ /\ \A i \in DOMAIN traffic_cars :
            /\ traffic_cars[i].lane = lane
                => ~(Abs(traffic_cars[i].distance - distance) < K(280) + vehicle_speed * 40)
            /\ Abs(traffic_cars[i].lane - lane) = 1
                => ~(Abs(traffic_cars[i].distance - distance) < K(80))
       /\ opponent.present /\ lane = get_lane_from_x(opponent.x)
            => ~(Abs(opponent.distance - distance) < K(180))

(* traffic penalty of one car in calculate_path_cost *)
path_car_penalty(car, next_lane, next_distance, vehicle_speed) ==
    LET distance_diff == Abs(car.distance - next_distance)
    IN  (IF car.lane # next_lane THEN 0
         ELSE IF distance_diff < K(150) + vehicle_speed * 25 THEN K(900)
         ELSE IF distance_diff < K(280) + vehicle_speed * 30 THEN K(550)
         ELSE IF distance_diff < K(420) + vehicle_speed * 35 THEN K(280)
         ELSE IF distance_diff < K(560) + vehicle_speed * 40 THEN K(100)
         ELSE 0)
        + (IF Abs(car.lane - next_lane) # 1 THEN 0
           ELSE IF distance_diff < K(70) THEN K(600)
           ELSE IF distance_diff < K(130) THEN K(180)
           ELSE 0)

(* AStarPathfinder.calculate_path_cost *)
calculate_path_cost(current_node, next_lane, next_distance, traffic_cars, opponent, ghost_mode, is_police, vehicle_speed) ==
    LET distance_cost == Abs(next_distance - current_node.distance)
        lane_change_cost == IF next_lane # current_node.lane THEN K(30) + vehicle_speed * 5 ELSE 0
        obstacles_nearby ==
            Cardinality({i \in DOMAIN traffic_cars :
                /\ traffic_cars[i].lane = next_lane
                /\ Abs(traffic_cars[i].distance - next_distance) < K(280) + vehicle_speed * 30})
        lane_clear ==
            \A i \in DOMAIN traffic_cars :
                traffic_cars[i].lane = next_lane
                    => ~(Abs(traffic_cars[i].distance - next_distance) < K(500) + vehicle_speed * 40)
        traffic_penalty ==
            IF ghost_mode THEN 0
            ELSE Sum([i \in DOMAIN traffic_cars |->
                        path_car_penalty(traffic_cars[i], next_lane, next_distance, vehicle_speed)])
                 + (IF obstacles_nearby >= 2 THEN K(350) ELSE 0)
                 - (IF lane_clear THEN K(30) ELSE 0)
        distance_to_opponent == next_distance - opponent.distance
        opponent_cost ==
            IF ~opponent.present THEN 0
            ELSE IF is_police
            THEN (IF distance_to_opponent > 0 THEN K(500) + distance_to_opponent * 2
                  ELSE -(Abs(distance_to_opponent) \div 10))
            ELSE (IF distance_to_opponent > 0 THEN -K(20)
                  ELSE Abs(distance_to_opponent) \div 5)
    IN  Max(K(1), distance_cost + lane_change_cost + traffic_penalty + opponent_cost)

(* AStarPathfinder._generate_neighbors, as (lane, distance) pairs in order *)
generate_neighbors(current_node, goal_distance) ==
    LET distance_to_goal == Abs(goal_distance - current_node.distance)
        step_size == IF distance_to_goal > K(1000) THEN K(100)
                     ELSE IF distance_to_goal > K(300) THEN K(50)
                     ELSE K(20)
        next_distance == current_node.distance + step_size
    IN  (IF next_distance <= goal_distance + K(100)
         THEN <<(<<current_node.lane, next_distance>>)>> ELSE <<>>)
        \o (IF current_node.lane - 1 >= 0
            THEN <<(<<current_node.lane - 1, next_distance>>)>> ELSE <<>>)
        \o (IF current_node.lane + 1 <= 2
            THEN <<(<<current_node.lane + 1, next_distance>>)>> ELSE <<>>)

(* heapq._siftdown with AStarNode.__lt__ (strictly lower f_cost) *)
RECURSIVE heap_siftdown(_, _, _, _)
heap_siftdown(heap, startpos, pos, newitem) ==
    IF pos > startpos /\ newitem.f_cost < heap[pos \div 2].f_cost
    THEN heap_siftdown([heap EXCEPT ![pos] = heap[pos \div 2]], startpos, pos \div 2, newitem)
    ELSE [heap EXCEPT ![pos] = newitem]

(* heapq.heappush *)
heappush(heap, item) == heap_siftdown(Append(heap, item), 1, Len(heap) + 1, item)

(* heapq._siftup: bubble the smaller child up to a leaf, then sift down *)
RECURSIVE heap_siftup(_, _, _)
heap_siftup(heap, pos, newitem) ==
    LET childpos == 2 * pos
        rightpos == childpos + 1
    IN  IF childpos <= Len(heap)
        THEN LET c == IF rightpos <= Len(heap)
                         /\ ~(heap[childpos].f_cost < heap[rightpos].f_cost)
                      THEN rightpos ELSE childpos
             IN  heap_siftup([heap EXCEPT ![pos] = heap[c]], c, newitem)
        ELSE heap_siftdown(heap, 1, pos, newitem)

(* heapq.heappop: the popped node and the remaining heap *)
heappop(heap) ==
    LET lastelt == heap[Len(heap)]
        rest == SubSeq(heap, 1, Len(heap) - 1)
    IN  IF rest = <<>> THEN [item |-> lastelt, heap |-> <<>>]
        ELSE [item |-> heap[1], heap |-> heap_siftup(rest, 1, lastelt)]

(* the goal test of find_path that ignores the lane *)
reached_goal_any_lane(node, goal_lane, goal_distance) ==
    Abs(node.distance - goal_distance) < K(100)

(* the goal test of find_path *)
reached_goal(node, goal_lane, goal_distance) ==
    Abs(node.distance - goal_distance) < K(100) /\ node.lane = goal_lane

(* (lane, int(distance / 50)): the discretised key of closed_set and best_g_cost *)
state_key(lane, distance) == <<lane, TruncDiv(distance, K(50))>>

(* the inner loop of find_path over the neighbours of current_node; q holds  *)
(* the open set and the best g-cost table                                    *)
RECURSIVE expand_neighbors(_, _, _, _, _)
expand_neighbors(neighbors, k, current_node, q, c) ==
    IF k > Len(neighbors) THEN q
    ELSE LET next_lane == neighbors[k][1]
             next_distance == neighbors[k][2]
             new_g_cost == current_node.g_cost
                 + calculate_path_cost(current_node, next_lane, next_distance, c.traffic_cars,
                                       c.opponent, c.ghost_mode, c.is_police, c.vehicle_speed)
             key == state_key(next_lane, next_distance)
         IN  IF ~is_position_safe(next_lane, next_distance, c.traffic_cars, c.opponent,
                                  c.ghost_mode, c.vehicle_speed)
             THEN expand_neighbors(neighbors, k + 1, current_node, q, c)
             ELSE IF key \in DOMAIN q.best_g_cost /\ new_g_cost >= q.best_g_cost[key]
             THEN expand_neighbors(neighbors, k + 1, current_node, q, c)
             ELSE expand_neighbors(neighbors, k + 1, current_node,
                    [open_set |-> heappush(q.open_set,
                        [lane |-> next_lane, distance |-> next_distance, g_cost |-> new_g_cost,
                         f_cost |-> new_g_cost + calculate_heuristic(c.heuristic_type, next_lane,
                                        next_distance, c.goal_lane, c.goal_distance),
                         path |-> Append(current_node.path, <<next_lane, next_distance>>)]),
                     best_g_cost |-> (key :> new_g_cost) @@ q.best_g_cost],
                    c)

max_iterations == 200

(* one iteration of the while loop of find_path; s carries the open set, the *)
(* closed set, the best g-cost table, the iteration count and, once the loop  *)
(* has ended, the path find_path returns                                      *)
astar_step(s, c) ==
    IF s.done THEN s
    ELSE IF s.open_set = <<>> \/ ~(s.iterations < max_iterations)
    THEN [s EXCEPT !.done = TRUE,
                   !.path = <<(<<c.start_lane, c.start_distance>>), (<<c.goal_lane, c.goal_distance>>)>>]
    ELSE LET popped == heappop(s.open_set)
             current_node == popped.item
             state == state_key(current_node.lane, current_node.distance)
         IN  IF reached_goal(current_node, c.goal_lane, c.goal_distance)
             THEN [s EXCEPT !.done = TRUE, !.path = current_node.path]
             ELSE IF state \in s.closed_set
             THEN [s EXCEPT !.open_set = popped.heap, !.iterations = @ + 1]
             ELSE LET q == expand_neighbors(generate_neighbors(current_node, c.goal_distance), 1,
                                current_node,
                                [open_set |-> popped.heap, best_g_cost |-> s.best_g_cost], c)
                  IN  [s EXCEPT !.open_set = q.open_set, !.closed_set = @ \cup {state},
                                !.best_g_cost = q.best_g_cost, !.iterations = @ + 1]

(* n iterations of the loop, taken half by half *)
RECURSIVE astar_steps(_, _, _)
astar_steps(s, n, c) ==
    IF s.done \/ n = 0 THEN s
    ELSE IF n = 1 THEN astar_step(s, c)
    ELSE astar_steps(astar_steps(s, n \div 2, c), n - n \div 2, c)

(* the while loop of find_path: at most max_iterations iterations and the    *)
(* test that ends the loop                                                   *)
astar_search(open_set, closed_set, best_g_cost, iterations, c) ==
    astar_steps([open_set |-> open_set, closed_set |-> closed_set, best_g_cost |-> best_g_cost,
                 iterations |-> iterations, done |-> FALSE, path |-> <<>>],
                max_iterations + 1, c).path

(* AStarPathfinder.find_path; c carries the arguments and the heuristic type. *)
(* best_g_cost starts with the undiscretised key (start_lane, start_distance), *)
(* which can only coincide with a discretised key when start_distance is a    *)
(* whole number                                                               *)
find_path(c) ==
    LET start_h == calculate_heuristic(c.heuristic_type, c.start_lane, c.start_distance,
                                       c.goal_lane, c.goal_distance)
        start_node == [lane |-> c.start_lane, distance |-> c.start_distance, g_cost |-> 0,
                       f_cost |-> start_h, path |-> <<(<<c.start_lane, c.start_distance>>)>>]
        start_best == IF c.start_distance % 1000 = 0
                      THEN (<<c.start_lane, c.start_distance \div 1000>>) :> 0
                      ELSE <<>>
    IN  astar_search(<<start_node>>, {}, start_best, 0, c)

(* ---------------- A* search on abstracted road situations ---------------- *)
AStarBase == K(2000)

(* the thief plans with the Manhattan heuristic and may be in ghost mode,    *)
(* the police plans with the Euclidean heuristic                             *)
AStarQueries(traffic_cars) ==
    {[heuristic_type |-> IF role = "police" THEN "euclidean" ELSE "manhattan",
      start_lane |-> sl, start_distance |-> AStarBase,
      goal_lane |-> gl, goal_distance |-> AStarBase + gd,
      traffic_cars |-> traffic_cars, opponent |-> op,
      ghost_mode |-> (role = "ghost thief"), is_police |-> (role = "police"),
      vehicle_speed |-> K(5)] :
        role \in {"police", "thief", "ghost thief"},
        sl \in {0, 1}, gl \in Lanes, gd \in {K(60), K(150), K(500)},
        op \in {NoOpponent,
                [present |-> TRUE, x |-> lane_positions(1), distance |-> AStarBase + K(100)]}}

InitAStar ==
    /\ \E t \in TrafficAround(AStarBase, {K(100), K(450)}, K(3)) : inp \in AStarQueries(t)
    /\ out = [kind |-> "none"]
    /\ NoRace

(* one call of find_path *)
AStarFindPath ==
    /\ out.kind = "none"
    /\ out' = [kind |-> "astar", path |-> find_path(inp)]
    /\ UNCHANGED <<inp, race_vars>>

NextAStar == AStarFindPath

SpecAStar == InitAStar /\ [][NextAStar]_vars

(* C9: find_path returns a non-empty path whose first waypoint is the start  *)
(* and whose final waypoint is in the goal lane at a distance less than 100  *)
(* from goal_distance, with or without obstacles, fallback path included.    *)
C9_PathFromStartToGoal ==
    out.kind = "astar" =>
        /\ out.path # <<>>
        /\ out.path[1] = <<inp.start_lane, inp.start_distance>>
        /\ out.path[Len(out.path)][1] = inp.goal_lane
        /\ Abs(out.path[Len(out.path)][2] - inp.goal_distance) < K(100)

(* every lane next to the start is closed by traffic, and the fallback path  *)
(* is returned                                                               *)
C9_Witness ==
    /\ out.kind = "astar"
    /\ ~inp.ghost_mode
    /\ \A lane \in Lanes : \E i \in DOMAIN inp.traffic_cars :
            /\ inp.traffic_cars[i].lane = lane
            /\ inp.traffic_cars[i].distance = inp.start_distance + K(100)
    /\ inp.goal_distance = inp.start_distance + K(500)
    /\ out.path = <<(<<inp.start_lane, inp.start_distance>>), (<<inp.goal_lane, inp.goal_distance>>)>>

(* the fallback of find_path: the start followed directly by the goal *)
FallbackPath == <<(<<inp.start_lane, inp.start_distance>>), (<<inp.goal_lane, inp.goal_distance>>)>>

(* the position (lane, distance) keeps the margins of the planner to the     *)
(* traffic and the opponent of the query: 280 plus 40 per unit of speed to a *)
(* car of the same lane, 80 to a car one lane aside, 180 to the opponent in  *)
(* its lane                                                                  *)
C18_KeepsMargins(lane, distance) ==
    /\ \A i \in DOMAIN inp.traffic_cars :
        LET car == inp.traffic_cars[i]
            gap == Abs(car.distance - distance)
        IN  /\ car.lane = lane => gap >= K(280) + 40 * inp.vehicle_speed
            /\ car.lane \in {lane - 1, lane + 1} => gap >= K(80)
    /\ (inp.opponent.present /\ get_lane_from_x(inp.opponent.x) = lane)
            => Abs(inp.opponent.distance - distance) >= K(180)

(* every waypoint after the start keeps the margins and lies at most one     *)
(* lane from the waypoint before it                                          *)
C18_WaypointsSafe ==
    \A k \in 2..Len(out.path) :
        /\ C18_KeepsMargins(out.path[k][1], out.path[k][2])
        /\ Abs(out.path[k][1] - out.path[k - 1][1]) <= 1

(* C18 as stated: outside ghost mode every path find_path returns, the       *)
(* fallback included, has only safe waypoints after the start and lane       *)
(* steps of at most one.                                                     *)
C18_EveryPathSafe ==
    (out.kind = "astar" /\ ~inp.ghost_mode) => C18_WaypointsSafe

(* C18 amended: outside ghost mode every path find_path returns other than   *)
(* the two-point fallback (start, goal) has only safe waypoints after the    *)
(* start and lane steps of at most one.                                      *)
C18_SearchedPathSafe ==
    (out.kind = "astar" /\ ~inp.ghost_mode /\ out.path # FallbackPath) => C18_WaypointsSafe

(* a searched path of three or more waypoints that changes lane with a car   *)
(* on the road                                                               *)
C18_Witness ==
    /\ out.kind = "astar" /\ ~inp.ghost_mode /\ out.path # FallbackPath
    /\ Len(out.path) >= 3
    /\ inp.traffic_cars # <<>>
    /\ \E k \in 2..Len(out.path) : out.path[k][1] # out.path[k - 1][1]

(* the cheapest continuation from node, given the cheapest costs beyond the  *)
(* next distance (one per lane, lane 0 first)                                *)
cheapest_via_neighbors(node, beyond, c) ==
    LET neighbors == generate_neighbors(node, c.goal_distance)
        through(k) ==
            IF k > Len(neighbors) THEN Infinity
            ELSE IF ~is_position_safe(neighbors[k][1], neighbors[k][2], c.traffic_cars, c.opponent,
                                      c.ghost_mode, c.vehicle_speed)
                    \/ beyond[neighbors[k][1] + 1] >= Infinity
            THEN Infinity
            ELSE calculate_path_cost(node, neighbors[k][1], neighbors[k][2], c.traffic_cars,
                                     c.opponent, c.ghost_mode, c.is_police, c.vehicle_speed)
                 + beyond[neighbors[k][1] + 1]
    IN  Min(through(1), Min(through(2), through(3)))

(* the cheapest total calculate_path_cost of a path from each lane at the    *)
(* given distance (lane 0 first) to a node that passes the goal test, over   *)
(* the moves that _generate_neighbors offers and is_position_safe accepts;   *)
(* Infinity where no such path exists. All neighbours of a distance share    *)
(* the next distance, so the costs are computed distance by distance.        *)
RECURSIVE cheapest_path_costs(_, _)
cheapest_path_costs(distance, c) ==
    IF distance >= c.goal_distance + K(100) THEN <<Infinity, Infinity, Infinity>>
    ELSE LET next_distance == generate_neighbors([lane |-> 1, distance |-> distance], c.goal_distance)[2][2]
             cost(lane, beyond) ==
                IF reached_goal([lane |-> lane, distance |-> distance], c.goal_lane, c.goal_distance)
                THEN 0
                ELSE cheapest_via_neighbors([lane |-> lane, distance |-> distance], beyond, c)
         IN  CHOOSE costs \in {<<cost(0, beyond), cost(1, beyond), cost(2, beyond)>> :
                                  beyond \in {cheapest_path_costs(next_distance, c)}} : TRUE

(* C19: the Manhattan heuristic is admissible: at every lane of the start    *)
(* distance of a query its value is at most the cheapest total               *)
(* calculate_path_cost of a path from there to the goal.                     *)
C19_ManhattanAdmissible ==
    out.kind = "astar" =>
        \A lane \in Lanes :
            manhattan_distance(lane, inp.start_distance, inp.goal_lane, inp.goal_distance)
                <= cheapest_path_costs(inp.start_distance, inp)[lane + 1]

(* ------------------------------ vehicle --------------------------------- *)
(* Vehicle.ABSOLUTE_MAX_SPEED and base_max_speed: 8.0, the 200 km/h limit *)
ABSOLUTE_MAX_SPEED == K(8)
base_max_speed == K(8)

(* Vehicle.__init__: the role-dependent rates (police 0.21 / 0.35, thief     *)
(* 0.20 / 0.32), in thousandths                                              *)
acceleration_rate_halved(vehicle) == IF vehicle.is_police THEN 105 ELSE 100
acceleration_rate(vehicle) == IF vehicle.is_police THEN 210 ELSE 200
brake_rate(vehicle) == IF vehicle.is_police THEN 350 ELSE 320

(* Vehicle.__init__ followed by the placement main() gives the car *)
Vehicle(x, distance, is_police) ==
    [x |-> x, distance |-> distance, speed |-> 0, max_speed |-> K(8), is_police |-> is_police,
     crashed |-> FALSE, crash_timer |-> 0]

(* v * f for a decimal factor f given in thousandths *)
Times(v, f) == (v * f) \div 1000

(* enforce_speed_limit with the max_speed clamp left out *)
enforce_speed_limit_absolute_only(vehicle) ==
    [vehicle EXCEPT !.speed = Min(@, ABSOLUTE_MAX_SPEED), !.crash_timer = 0]

(* enforce_speed_limit that also cuts max_speed down to the absolute limit *)
enforce_speed_limit_caps_max_speed(vehicle) ==
    [vehicle EXCEPT !.speed = Min(Min(@, ABSOLUTE_MAX_SPEED), vehicle.max_speed),
                    !.max_speed = Min(@, ABSOLUTE_MAX_SPEED),
                    !.crash_timer = 0]

(* Vehicle.enforce_speed_limit *)
enforce_speed_limit(vehicle) ==
    [vehicle EXCEPT !.speed = Min(Min(@, ABSOLUTE_MAX_SPEED), vehicle.max_speed),
                    !.crash_timer = 0]

(* Vehicle.crash *)
crash(vehicle) ==
    [vehicle EXCEPT !.crashed = TRUE, !.crash_timer = 60, !.speed = Max(0, Times(@, 300))]

(* Vehicle.update_crash *)
update_crash(vehicle) ==
    IF vehicle.crashed /\ vehicle.crash_timer > 0
    THEN [vehicle EXCEPT !.crash_timer = @ - 1, !.crashed = (vehicle.crash_timer - 1 # 0)]
    ELSE vehicle

(* the steering statement every controller ends with:                        *)
(*   if target_x < self.x: self.x = max(ROAD_X + 35, self.x - steering_speed) *)
(*   else: self.x = min(ROAD_X + ROAD_WIDTH - 35, self.x + steering_speed)   *)
steer(vehicle, target_x, steering_speed) ==
    IF target_x < vehicle.x
    THEN [vehicle EXCEPT !.x = Max(RoadLeft, @ - steering_speed)]
    ELSE [vehicle EXCEPT !.x = Min(RoadRight, @ + steering_speed)]

(* the guarded steering step "if abs(target_x - self.x) > 5: steer" *)
steer_if_off_target(vehicle, target_x, steering_speed) ==
    IF Abs(target_x - vehicle.x) > K(5) THEN steer(vehicle, target_x, steering_speed)
    ELSE vehicle

(* self.speed = max(self.speed - self.brake_rate * factor, self.max_speed * floor) *)
brake(vehicle, factor, floor) ==
    [vehicle EXCEPT !.speed = Max(@ - Times(brake_rate(vehicle), factor),
                                  Times(vehicle.max_speed, floor))]

(* self.speed = min(self.speed + self.acceleration_rate * factor, self.max_speed) *)
accelerate(vehicle, factor) ==
    [vehicle EXCEPT !.speed = Min(@ + Times(acceleration_rate(vehicle), factor),
                                  vehicle.max_speed)]

(* min(safe_lanes, key=lambda lane: abs(lane - current_lane)): the first     *)
(* listed safe lane nearest to the current lane                              *)
nearest_safe_lane(safe_lanes, current_lane) ==
    LET i == CHOOSE i \in DOMAIN safe_lanes : \A j \in DOMAIN safe_lanes :
                \/ Abs(safe_lanes[i] - current_lane) < Abs(safe_lanes[j] - current_lane)
                \/ Abs(safe_lanes[i] - current_lane) = Abs(safe_lanes[j] - current_lane) /\ i <= j
    IN  safe_lanes[i]

(* the emergency lane change of the safety override and of every emergency   *)
(* branch: steer toward the nearest safe lane when a change is recommended   *)
emergency_lane_change(vehicle, safety_check, steering_speed) ==
    IF safety_check.should_change_lane
    THEN steer_if_off_target(vehicle,
            lane_positions(nearest_safe_lane(safety_check.safe_lanes,
                                             get_lane_from_x(vehicle.x))),
            steering_speed)
    ELSE vehicle

(* Vehicle._execute_safety_override *)
execute_safety_override(vehicle, safety_check) ==
    enforce_speed_limit(emergency_lane_change(brake(vehicle, 2000, 250), safety_check, K(14)))

(* Vehicle._execute_safety_influenced_decision *)
execute_safety_influenced_decision(vehicle, safety_check) ==
    LET braked == IF safety_check.brake_intensity > 600 THEN brake(vehicle, 1300, 400)
                  ELSE IF safety_check.brake_intensity > 300 THEN brake(vehicle, 800, 600)
                  ELSE IF safety_check.brake_intensity > 0 THEN brake(vehicle, 400, 750)
                  ELSE vehicle
        steering_speed == IF safety_check.urgency = "high" THEN K(12)
                          ELSE IF safety_check.urgency = "moderate" THEN K(9)
                          ELSE K(7)
    IN  enforce_speed_limit(emergency_lane_change(braked, safety_check, steering_speed))

(* the emergency branch shared by ai_decision_fuzzy and ai_decision_astar    *)
(* (urgency critical or high)                                                *)
emergency_mode(vehicle, safety_check) ==
    LET braked == IF safety_check.brake_intensity > 800 THEN brake(vehicle, 2000, 250)
                  ELSE IF safety_check.brake_intensity > 500 THEN brake(vehicle, 1500, 400)
                  ELSE brake(vehicle, 1000, 550)
    IN  enforce_speed_limit(emergency_lane_change(braked, safety_check, K(14)))

(* ---------------------------- power-ups --------------------------------- *)
(* PowerUp.__init__ *)
PowerUp(lane, distance, power_type, for_police) ==
    [lane |-> lane, distance |-> distance, type |-> power_type, for_police |-> for_police,
     collected |-> FALSE]

(* PowerUp.get_priority_value, in thousandths *)
get_priority_value(powerup) ==
    CASE powerup.type = "boost" -> 1200
      [] powerup.type = "shield" -> 1400
      [] powerup.type = "ghost" -> 1500
      [] powerup.type = "freeze" -> 1000
      [] powerup.type = "turbo" -> 1200
      [] powerup.type = "spike" -> 1100
      [] powerup.type = "emp" -> 1300
      [] powerup.type = "magnet" -> 1400
      [] powerup.type = "roadblock" -> 1000
      [] OTHER -> 1000

(* Vehicle.is_lane_safe_for_powerup *)
is_lane_safe_for_powerup(vehicle, target_lane, traffic_cars, lookahead) ==
    \A i \in DOMAIN traffic_cars :
        traffic_cars[i].lane = target_lane
            => ~(/\ 0 < traffic_cars[i].distance - vehicle.distance
                 /\ traffic_cars[i].distance - vehicle.distance < lookahead)

(* the score choose_best_power gives one power-up, in millionths:            *)
(* value * 1 / (dist + 1) - lane_risk                                        *)
power_score(vehicle, p, traffic_cars) ==
    LET dist == Abs(p.distance - vehicle.distance)
        lane_risk == IF is_lane_safe_for_powerup(vehicle, p.lane, traffic_cars, K(250))
                     THEN 0 ELSE 1200
    IN  (get_priority_value(p) * 1000000) \div (dist + 1000) - lane_risk * 1000

(* the power-ups choose_best_power does not skip *)
power_candidates(vehicle, powers) ==
    {i \in DOMAIN powers :
        /\ ~powers[i].collected
        /\ powers[i].for_police = vehicle.is_police
        /\ ~(Abs(powers[i].distance - vehicle.distance) > K(400))}

(* Vehicle.choose_best_power: the index of the first power-up of highest     *)
(* positive score, 0 for None                                                *)
choose_best_power(vehicle, powers, traffic_cars) ==
    LET good == {i \in power_candidates(vehicle, powers) :
                    power_score(vehicle, powers[i], traffic_cars) > 0}
    IN  IF good = {} THEN 0
        ELSE CHOOSE i \in good : \A j \in good :
                \/ power_score(vehicle, powers[i], traffic_cars)
                     > power_score(vehicle, powers[j], traffic_cars)
                \/ /\ power_score(vehicle, powers[i], traffic_cars)
                        = power_score(vehicle, powers[j], traffic_cars)
                   /\ i <= j

(* no road boundary at all *)
clamp_to_road_unbounded(x) == x

(* max(ROAD_X + 35, min(ROAD_X + ROAD_WIDTH - 35, x)) *)
clamp_to_road(x) == Max(RoadLeft, Min(RoadRight, x))

(* the micro-steering of the arbiter toward the chosen power-up:             *)
(* x += (target_x - x) * 0.07, then the two-sided road clamp                 *)
micro_steer(vehicle, target_power) ==
    [vehicle EXCEPT !.x = clamp_to_road(@ + TruncDiv((lane_positions(target_power.lane) - @) * 7, 100))]

(* ----------------------- fuzzy logic controller ------------------------- *)
(* membership degrees are thousandths: 1000 is full membership               *)

(* FuzzyLogicController.triangular_membership *)
triangular_membership(value, left, peak, right) ==
    IF value <= left \/ value >= right THEN 0
    ELSE IF value = peak THEN 1000
    ELSE IF value < peak THEN ((value - left) * 1000) \div (peak - left)
    ELSE ((right - value) * 1000) \div (right - peak)

(* FuzzyLogicController.trapezoidal_membership *)
trapezoidal_membership(value, left, left_top, right_top, right) ==
    IF value <= left \/ value >= right THEN 0
    ELSE IF left_top <= value /\ value <= right_top THEN 1000
    ELSE IF value < left_top THEN ((value - left) * 1000) \div (left_top - left)
    ELSE ((right - value) * 1000) \div (right - right_top)

(* FuzzyLogicController.fuzzify_distance_to_traffic *)
fuzzify_distance_to_traffic(distance) ==
    [VeryClose |-> trapezoidal_membership(distance, 0, 0, K(80), K(160)),
     Close |-> triangular_membership(distance, K(130), K(220), K(310)),
     Medium |-> triangular_membership(distance, K(250), K(380), K(510)),
     Far |-> triangular_membership(distance, K(450), K(600), K(750)),
     VeryFar |-> trapezoidal_membership(distance, K(650), K(800), K(10000), K(10000))]

(* FuzzyLogicController.fuzzify_opponent_proximity *)
fuzzify_opponent_proximity(distance) ==
    [ExtremelyClose |-> trapezoidal_membership(distance, 0, 0, K(30), K(60)),
     Close |-> triangular_membership(distance, K(40), K(100), K(170)),
     Medium |-> triangular_membership(distance, K(120), K(225), K(330)),
     Far |-> triangular_membership(distance, K(250), K(450), K(650)),
     VeryFar |-> trapezoidal_membership(distance, K(500), K(700), K(10000), K(10000))]

(* FuzzyLogicController.fuzzify_speed; speed_ratio = speed / max_speed is     *)
(* kept in hundred-thousandths                                               *)
fuzzify_speed(speed, max_speed) ==
    LET speed_ratio == IF max_speed > 0 THEN (speed * 100000) \div max_speed ELSE 0
    IN  [VerySlow |-> trapezoidal_membership(speed_ratio, 0, 0, 30000, 40000),
         Slow |-> triangular_membership(speed_ratio, 30000, 50000, 65000),
         Medium |-> triangular_membership(speed_ratio, 55000, 70000, 85000),
         Fast |-> triangular_membership(speed_ratio, 75000, 90000, 100000),
         VeryFast |-> trapezoidal_membership(speed_ratio, 90000, 95000, 120000, 120000)]

(* FuzzyLogicController.fuzzify_road_clearance (clear_lanes is a count) *)
fuzzify_road_clearance(clear_lanes) ==
    [Blocked |-> IF clear_lanes = 0 THEN 1000 ELSE IF clear_lanes = 1 THEN 500 ELSE 0,
     PartiallyBlocked |-> triangular_membership(clear_lanes, 0, 1, 2),
     Clear |-> IF clear_lanes >= 2 THEN 1000 ELSE IF clear_lanes = 1 THEN 500 ELSE 0]

Min3(a, b, c) == Min(a, Min(b, c))

(* FuzzyLogicController.evaluate_speed_rules: each output set takes the      *)
(* strongest of its rules                                                    *)
evaluate_speed_rules(distance_fuzzy, opponent_fuzzy, speed_fuzzy, clearance_fuzzy, is_police) ==
    [StrongBrake |->
        Max(Max(Min(distance_fuzzy.VeryClose, speed_fuzzy.Fast),
                Min(distance_fuzzy.VeryClose, speed_fuzzy.Medium)),
            Max(Min(distance_fuzzy.Close, speed_fuzzy.VeryFast),
                Min(clearance_fuzzy.Blocked, speed_fuzzy.Fast))),
     LightBrake |->
        Max(Max(Min(distance_fuzzy.Close, speed_fuzzy.Medium),
                Min(distance_fuzzy.Medium, speed_fuzzy.VeryFast)),
            Max(Min(clearance_fuzzy.PartiallyBlocked, speed_fuzzy.Fast),
                IF is_police THEN Min(opponent_fuzzy.ExtremelyClose, speed_fuzzy.VeryFast)
                ELSE Min(opponent_fuzzy.ExtremelyClose, distance_fuzzy.Close))),
     Maintain |->
        Max(Min(distance_fuzzy.Medium, speed_fuzzy.Medium),
            Min(distance_fuzzy.Far, speed_fuzzy.Fast)),
     LightAccelerate |->
        Max(Min(distance_fuzzy.Far, speed_fuzzy.Slow),
            IF is_police THEN Min(opponent_fuzzy.Close, speed_fuzzy.Slow) ELSE 0),
     StrongAccelerate |->
        Max(Max(Min3(distance_fuzzy.VeryFar, clearance_fuzzy.Clear, speed_fuzzy.Medium),
                Min3(distance_fuzzy.VeryFar, clearance_fuzzy.Clear, speed_fuzzy.Slow)),
            Max(Min(distance_fuzzy.Far, speed_fuzzy.VerySlow),
                IF is_police THEN 0 ELSE Min(opponent_fuzzy.VeryFar, distance_fuzzy.Far)))]

(* FuzzyLogicController.defuzzify_acceleration: the weighted average of the  *)
(* crisp values -0.7, -0.3, 0, 0.3, 0.6, in thousandths                      *)
defuzzify_acceleration(fuzzy_output) ==
    LET numerator == -700 * fuzzy_output.StrongBrake - 300 * fuzzy_output.LightBrake
                     + 300 * fuzzy_output.LightAccelerate + 600 * fuzzy_output.StrongAccelerate
        denominator == fuzzy_output.StrongBrake + fuzzy_output.LightBrake + fuzzy_output.Maintain
                       + fuzzy_output.LightAccelerate + fuzzy_output.StrongAccelerate
    IN  IF denominator = 0 THEN 0 ELSE TruncDiv(numerator, denominator)

(* the cars of a lane ahead of the vehicle and nearer than look_ahead *)
cars_ahead(vehicle, traffic_cars, lane, look_ahead) ==
    {i \in DOMAIN traffic_cars :
        /\ traffic_cars[i].lane = lane
        /\ 0 < traffic_cars[i].distance - vehicle.distance
        /\ traffic_cars[i].distance - vehicle.distance < look_ahead}

(* the first car of a non-empty index set S at the least distance *)
first_nearest(traffic_cars, S) ==
    CHOOSE i \in S : \A j \in S :
        \/ traffic_cars[i].distance < traffic_cars[j].distance
        \/ traffic_cars[i].distance = traffic_cars[j].distance /\ i <= j

(* get_fuzzy_speed_control up to the fuzzification: what the controller      *)
(* reads off the vehicle, the traffic and the opponent                       *)
speed_situation(vehicle, traffic_cars, opponent) ==
    LET current_lane == get_lane_from_x(vehicle.x)
        look_ahead == K(600) + vehicle.speed * 70
        in_lane == cars_ahead(vehicle, traffic_cars, current_lane, look_ahead)
    IN  [min_traffic_distance |->
            IF in_lane = {} THEN K(10000)
            ELSE Min(K(10000), traffic_cars[first_nearest(traffic_cars, in_lane)].distance - vehicle.distance),
         obstacles_in_lane |-> Cardinality(in_lane),
         closest_obstacle_speed |->
            IF in_lane = {} THEN K(2) ELSE traffic_cars[first_nearest(traffic_cars, in_lane)].speed,
         opponent_distance |-> IF opponent.present THEN Abs(opponent.distance - vehicle.distance)
                               ELSE K(10000),
         clear_lanes |-> Cardinality({lane \in Lanes :
                            cars_ahead(vehicle, traffic_cars, lane, look_ahead) = {}})]

(* get_fuzzy_speed_control, "FUZZIFICATION" and "INFERENCE" *)
speed_fuzzy_output(vehicle, situation, is_police) ==
    evaluate_speed_rules(fuzzify_distance_to_traffic(situation.min_traffic_distance),
                         fuzzify_opponent_proximity(situation.opponent_distance),
                         fuzzify_speed(vehicle.speed, vehicle.max_speed),
                         fuzzify_road_clearance(situation.clear_lanes), is_police)

(* get_fuzzy_speed_control, "SMART MODIFIERS" *)
smart_speed_modifiers(acceleration, vehicle, situation) ==
    LET speed_difference == vehicle.speed - situation.closest_obstacle_speed
        emergency_distance == K(180) + speed_difference * 30
        emergency_brake == situation.min_traffic_distance < emergency_distance
        traffic_jam == situation.obstacles_in_lane >= 2 /\ situation.min_traffic_distance < K(500)
    IN  IF situation.min_traffic_distance < K(120) THEN -1000
        ELSE IF emergency_brake /\ speed_difference > K(3) THEN Min(acceleration, -850)
        ELSE IF emergency_brake THEN Min(acceleration, -600)
        ELSE IF traffic_jam THEN Min(acceleration, -350)
        ELSE acceleration

(* FuzzyLogicController.get_fuzzy_speed_control: acceleration in thousandths *)
get_fuzzy_speed_control(vehicle, traffic_cars, opponent, is_police) ==
    smart_speed_modifiers(
        defuzzify_acceleration(
            speed_fuzzy_output(vehicle, speed_situation(vehicle, traffic_cars, opponent), is_police)),
        vehicle, speed_situation(vehicle, traffic_cars, opponent))

(* FuzzyLogicController.fuzzify_lane_urgency *)
fuzzify_lane_urgency(distance_to_obstacle) ==
    [Low |-> trapezoidal_membership(distance_to_obstacle, K(600), K(700), K(10000), K(10000)),
     Medium |-> triangular_membership(distance_to_obstacle, K(350), K(450), K(600)),
     High |-> triangular_membership(distance_to_obstacle, K(150), K(250), K(400)),
     Critical |-> trapezoidal_membership(distance_to_obstacle, 0, 0, K(140), K(220))]

(* FuzzyLogicController.fuzzify_lane_safety *)
fuzzify_lane_safety(min_clearance) ==
    [Dangerous |-> trapezoidal_membership(min_clearance, 0, 0, K(80), K(130)),
     Risky |-> triangular_membership(min_clearance, K(100), K(200), K(320)),
     Safe |-> triangular_membership(min_clearance, K(280), K(400), K(520)),
     VerySafe |-> trapezoidal_membership(min_clearance, K(450), K(550), K(10000), K(10000))]

(* FuzzyLogicController.fuzzify_traffic_density (traffic_count is a count) *)
fuzzify_traffic_density(traffic_count) ==
    [Empty |-> IF traffic_count = 0 THEN 1000 ELSE 0,
     Light |-> triangular_membership(traffic_count, 0, 1, 2),
     Moderate |-> triangular_membership(traffic_count, 1, 2, 4),
     Heavy |-> triangular_membership(traffic_count, 3, 5, 7),
     Congested |-> trapezoidal_membership(traffic_count, 6, 8, 20, 20)]

(* FuzzyLogicController.evaluate_lane_change_rules *)
evaluate_lane_change_rules(current_safety_fuzzy, target_density_fuzzy, urgency_fuzzy, target_safety_fuzzy) ==
    [VeryLow |->
        Max(Min(current_safety_fuzzy.Safe, urgency_fuzzy.Low),
            Min(current_safety_fuzzy.VerySafe, target_safety_fuzzy.Risky)),
     Low |-> Min(target_density_fuzzy.Heavy, 1000 - current_safety_fuzzy.Dangerous),
     Medium |->
        Max(Min(current_safety_fuzzy.Risky, target_safety_fuzzy.Safe),
            Min(urgency_fuzzy.Medium, 1000 - target_density_fuzzy.Heavy)),
     High |->
        Max(Min(current_safety_fuzzy.Dangerous, target_safety_fuzzy.Safe),
            Min(urgency_fuzzy.High, target_density_fuzzy.Light)),
     VeryHigh |->
        Max(Max(Min(current_safety_fuzzy.Dangerous, 1000 - target_density_fuzzy.Congested),
                Min(urgency_fuzzy.Critical, 1000 - target_density_fuzzy.Heavy)),
            Min(target_safety_fuzzy.VerySafe, urgency_fuzzy.High))]

(* FuzzyLogicController.defuzzify_lane_confidence: the weighted average of   *)
(* the crisp percentages 10, 30, 50, 75, 95, in thousandths of a percent     *)
defuzzify_lane_confidence(fuzzy_output) ==
    LET numerator == K(10) * fuzzy_output.VeryLow + K(30) * fuzzy_output.Low
                     + K(50) * fuzzy_output.Medium + K(75) * fuzzy_output.High
                     + K(95) * fuzzy_output.VeryHigh
        denominator == fuzzy_output.VeryLow + fuzzy_output.Low + fuzzy_output.Medium
                       + fuzzy_output.High + fuzzy_output.VeryHigh
    IN  IF denominator = 0 THEN 0 ELSE TruncDiv(numerator, denominator)

(* get_fuzzy_lane_decision, "ANALYZE CURRENT LANE" and "ANALYZE TARGET LANE" *)
lane_situation(vehicle, traffic_cars, target_lane) ==
    LET current_lane == get_lane_from_x(vehicle.x)
        look_ahead_distance == K(700) + vehicle.speed * 80
        safety_margin == K(220) + vehicle.speed * 30
        dist(i) == traffic_cars[i].distance - vehicle.distance
        in_current == cars_ahead(vehicle, traffic_cars, current_lane, look_ahead_distance)
        in_target == {i \in DOMAIN traffic_cars :
                        /\ traffic_cars[i].lane = target_lane
                        /\ -K(120) < dist(i)
                        /\ dist(i) < look_ahead_distance}
    IN  [current_min_clearance |->
            IF in_current = {} THEN K(10000)
            ELSE Min(K(10000), dist(first_nearest(traffic_cars, in_current))),
         current_immediate_danger |-> \E i \in in_current : dist(i) < safety_margin,
         obstacles_in_current |-> Cardinality(in_current),
         target_min_clearance |->
            IF in_target = {} THEN K(10000)
            ELSE Min(K(10000), CHOOSE c \in {Abs(dist(i)) : i \in in_target} :
                                    \A i \in in_target : c <= Abs(dist(i))),
         target_has_danger |-> \E i \in in_target : Abs(dist(i)) < safety_margin,
         target_obstacles |-> Cardinality(in_target),
         side_collision_risk |-> \E i \in in_target : -K(60) < dist(i) /\ dist(i) < K(60)]

(* get_fuzzy_lane_decision, "FUZZIFICATION" and "INFERENCE" *)
lane_fuzzy_output(situation) ==
    evaluate_lane_change_rules(fuzzify_lane_safety(situation.current_min_clearance),
                               fuzzify_traffic_density(situation.target_obstacles),
                               fuzzify_lane_urgency(situation.current_min_clearance),
                               fuzzify_lane_safety(situation.target_min_clearance))

(* confidence = max(0, min(100, confidence)) *)
clamp_confidence_unbounded(confidence) == confidence

clamp_confidence(confidence) == Max(0, Min(K(100), confidence))

(* get_fuzzy_lane_decision, modifiers 2 and 3: the penalties floored at 0 *)
confidence_penalties(confidence, situation) ==
    IF situation.current_immediate_danger
    THEN (IF situation.target_has_danger THEN Max(0, confidence - K(80)) ELSE confidence)
    ELSE Max(0, (IF situation.target_has_danger THEN Max(0, confidence - K(80)) ELSE confidence)
                - K(40))

(* get_fuzzy_lane_decision, "SMART MODIFIERS" *)
smart_lane_modifiers(confidence, situation) ==
    IF situation.side_collision_risk THEN 0
    ELSE clamp_confidence(
            confidence_penalties(confidence, situation)
            + (IF /\ situation.current_immediate_danger
                  /\ ~situation.target_has_danger
                  /\ situation.target_min_clearance > K(400)
               THEN K(50) ELSE 0)
            - (IF /\ situation.target_obstacles > situation.obstacles_in_current
                  /\ ~situation.current_immediate_danger
               THEN K(30) ELSE 0))

(* FuzzyLogicController.get_fuzzy_lane_decision: confidence in thousandths   *)
(* of a percent                                                              *)
get_fuzzy_lane_decision(vehicle, traffic_cars, target_lane) ==
    smart_lane_modifiers(
        defuzzify_lane_confidence(lane_fuzzy_output(lane_situation(vehicle, traffic_cars, target_lane))),
        lane_situation(vehicle, traffic_cars, target_lane))

(* ------------- fuzzy controller on abstracted situations ----------------- *)
FuzzyBase == K(2000)

(* cars placed in the vehicle's lane ahead of it *)
MaxNearCars == 2

FuzzyVehicles ==
    {[x |-> x, distance |-> FuzzyBase, speed |-> s, max_speed |-> top, is_police |-> p,
      crashed |-> FALSE, crash_timer |-> 0] :
        x \in {lane_positions(1), lane_positions(2), K(416)},
        s \in {0, K(2), 4100, 6500, K(8)}, top \in {K(8), K(12)}, p \in BOOLEAN}

FuzzyOpponents ==
    {NoOpponent} \cup
    {[present |-> TRUE, x |-> lane_positions(1), distance |-> FuzzyBase + d, speed |-> K(5)] :
        d \in {-K(20), K(100), K(600)}}

(* the centre lane holds up to MaxNearCars cars ahead, the right lane is     *)
(* empty, holds one car beside or ahead, or a queue of five or eight cars    *)
FuzzyTraffic ==
    {LaneCars(1, near, FuzzyBase, K(3)) \o LaneCars(2, queue, FuzzyBase, K(3)) :
        near \in {c \in SUBSET {K(100), K(150), K(330), K(700)} : Cardinality(c) <= MaxNearCars},
        queue \in {{}, {K(30)}, {K(500)}, {K(450) + K(20) * n : n \in 1 .. 5},
                   {K(450) + K(20) * n : n \in 1 .. 8}}}

InitFuzzy ==
    /\ inp \in [vehicle : FuzzyVehicles, traffic : FuzzyTraffic, opponent : FuzzyOpponents,
                target_lane : Lanes]
    /\ out = [kind |-> "none"]
    /\ NoRace

(* one call of get_fuzzy_speed_control and one of get_fuzzy_lane_decision,   *)
(* with the rule strengths and the defuzzified values they pass through      *)
FuzzyControl ==
    /\ out.kind = "none"
    /\ out' = [kind |-> "fuzzy",
               speed_rules |->
                    speed_fuzzy_output(inp.vehicle,
                                       speed_situation(inp.vehicle, inp.traffic, inp.opponent),
                                       inp.vehicle.is_police),
               acceleration |->
                    get_fuzzy_speed_control(inp.vehicle, inp.traffic, inp.opponent,
                                            inp.vehicle.is_police),
               lane_rules |->
                    lane_fuzzy_output(lane_situation(inp.vehicle, inp.traffic, inp.target_lane)),
               confidence |->
                    get_fuzzy_lane_decision(inp.vehicle, inp.traffic, inp.target_lane)]
    /\ UNCHANGED <<inp, race_vars>>

NextFuzzy == FuzzyControl

SpecFuzzy == InitFuzzy /\ [][NextFuzzy]_vars

(* no rule of a rule table fired: every output set has strength 0 *)
NoSpeedRuleFired == \A set \in DOMAIN out.speed_rules : out.speed_rules[set] = 0
NoLaneRuleFired == \A set \in DOMAIN out.lane_rules : out.lane_rules[set] = 0

FuzzyOutputsInRange ==
    /\ -1000 <= out.acceleration /\ out.acceleration <= 1000
    /\ 0 <= out.confidence /\ out.confidence <= K(100)

(* C11 as stated: the acceleration returned by get_fuzzy_speed_control lies  *)
(* in [-1.0, 1.0] and the confidence returned by get_fuzzy_lane_decision in  *)
(* [0, 100], and when no rule fires the returned values are 0.0              *)
C11_NeutralWhenNoRuleFires ==
    out.kind = "fuzzy" =>
        /\ FuzzyOutputsInRange
        /\ NoSpeedRuleFired => out.acceleration = 0
        /\ NoLaneRuleFired => out.confidence = 0

(* C11, amended: the returned acceleration lies in [-1.0, 1.0] and the       *)
(* returned confidence in [0, 100]; when no rule fires the defuzzified value *)
(* is 0.0 and the returned value is what the smart modifiers make of 0.0:    *)
(* an acceleration of 0.0 or one of the brake levels -0.35, -0.6, -0.85,     *)
(* -1.0, a confidence of 0 or 50                                             *)
C11_FuzzyOutputsBounded ==
    out.kind = "fuzzy" =>
        /\ FuzzyOutputsInRange
        /\ NoSpeedRuleFired =>
            /\ defuzzify_acceleration(out.speed_rules) = 0
            /\ out.acceleration \in {0, -350, -600, -850, -1000}
        /\ NoLaneRuleFired =>
            /\ defuzzify_lane_confidence(out.lane_rules) = 0
            /\ out.confidence \in {0, K(50)}

(* a standing vehicle 100 behind a car: no speed rule fires and the          *)
(* controller returns the full brake; the lane rules fire and the confidence *)
(* is cut to 100                                                             *)
C11_Witness ==
    /\ out.kind = "fuzzy"
    /\ NoSpeedRuleFired
    /\ out.acceleration = -1000
    /\ ~NoLaneRuleFired
    /\ out.confidence = K(100)

(* no car lies ahead of the vehicle within the look-ahead of                 *)
(* get_fuzzy_speed_control, 600 + 70 * speed, in any lane                    *)
C21_RoadClear ==
    \A i \in DOMAIN inp.traffic :
        LET dist == inp.traffic[i].distance - inp.vehicle.distance
        IN  ~(0 < dist /\ dist < K(600) + inp.vehicle.speed * 70)

(* C21: on a fully clear road and below max_speed get_fuzzy_speed_control    *)
(* returns a strictly positive acceleration, for the police and the thief,   *)
(* with or without an opponent.                                              *)
C21_ClearRoadAccelerates ==
    (out.kind = "fuzzy" /\ C21_RoadClear /\ inp.vehicle.speed < inp.vehicle.max_speed)
        => out.acceleration > 0

(* ------------------------- ai_decision_fuzzy ---------------------------- *)
(* nearest_obstacle_dist: the nearest car ahead in the current lane, 10000   *)
(* when there is none                                                        *)
nearest_obstacle_dist(vehicle, traffic_cars, current_lane) ==
    LET ahead == {i \in DOMAIN traffic_cars :
                    /\ traffic_cars[i].lane = current_lane
                    /\ 0 < traffic_cars[i].distance - vehicle.distance}
    IN  IF ahead = {} THEN K(10000)
        ELSE Min(K(10000), traffic_cars[first_nearest(traffic_cars, ahead)].distance - vehicle.distance)

(* can_safely_change_lane: some other lane keeps every car at least          *)
(* 220 + 30 * speed away and its nearest car is farther than the obstacle    *)
can_safely_change_lane(vehicle, traffic_cars, current_lane) ==
    \E check_lane \in Lanes \ {current_lane} :
        LET in_lane == {i \in DOMAIN traffic_cars : traffic_cars[i].lane = check_lane}
        IN  /\ \A i \in in_lane :
                ~(Abs(traffic_cars[i].distance - vehicle.distance) < K(220) + vehicle.speed * 30)
            /\ K(10000) > nearest_obstacle_dist(vehicle, traffic_cars, current_lane)
            /\ \A i \in in_lane :
                    Abs(traffic_cars[i].distance - vehicle.distance)
                        > nearest_obstacle_dist(vehicle, traffic_cars, current_lane)

(* the "smart adjustments" of the fuzzy acceleration *)
adjust_acceleration(acceleration, obstacle_dist, can_change) ==
    IF K(200) < obstacle_dist /\ obstacle_dist < K(400) /\ can_change
    THEN (IF acceleration < -500 THEN -300 ELSE acceleration)
    ELSE IF obstacle_dist < K(180) /\ ~can_change THEN Min(acceleration, -850)
    ELSE IF obstacle_dist > K(600)
    THEN (IF acceleration > 0 THEN Max(acceleration, 400) ELSE acceleration)
    ELSE acceleration

(* the cruise branch: approach the target speed chosen from the obstacle     *)
(* distance                                                                  *)
cruise_speed(vehicle, obstacle_dist) ==
    LET target_speed == IF obstacle_dist > K(600) THEN vehicle.max_speed
                        ELSE IF obstacle_dist > K(400) THEN Times(vehicle.max_speed, 950)
                        ELSE IF obstacle_dist > K(250) THEN Times(vehicle.max_speed, 850)
                        ELSE Times(vehicle.max_speed, 700)
    IN  IF vehicle.speed < target_speed - 300 THEN accelerate(vehicle, 1000)
        ELSE IF vehicle.speed > target_speed + 300
        THEN [vehicle EXCEPT !.speed = Max(@ - Times(brake_rate(vehicle), 400), target_speed)]
        ELSE vehicle

(* the normal execution of the acceleration (police, no opponent, or thief   *)
(* with the police 400 or more away)                                         *)
fuzzy_speed_normal(vehicle, acceleration, obstacle_dist) ==
    IF acceleration > 300 THEN accelerate(vehicle, 1400)
    ELSE IF acceleration > 50 THEN accelerate(vehicle, 800)
    ELSE IF acceleration < -500 THEN brake(vehicle, 1500, 350)
    ELSE IF acceleration < -150 THEN brake(vehicle, 800, 550)
    ELSE cruise_speed(vehicle, obstacle_dist)

(* "apply smooth speed changes" of ai_decision_fuzzy *)
fuzzy_apply_speed(vehicle, opponent, acceleration, obstacle_dist) ==
    IF opponent.present /\ ~vehicle.is_police
    THEN LET distance_to_police == Abs(opponent.distance - vehicle.distance)
         IN  IF distance_to_police < K(200)
             THEN (IF acceleration >= 0 THEN accelerate(vehicle, 1800)
                   ELSE brake(vehicle, 500, 750))
             ELSE IF distance_to_police < K(400)
             THEN (IF acceleration > 300 THEN accelerate(vehicle, 1600)
                   ELSE IF acceleration > 50 THEN accelerate(vehicle, 1200)
                   ELSE IF acceleration < -500 THEN brake(vehicle, 1000, 500)
                   ELSE IF acceleration < -150 THEN brake(vehicle, 500, 650)
                   ELSE IF vehicle.speed < vehicle.max_speed - 100
                   THEN accelerate(vehicle, 1300)
                   ELSE vehicle)
             ELSE fuzzy_speed_normal(vehicle, acceleration, obstacle_dist)
    ELSE fuzzy_speed_normal(vehicle, acceleration, obstacle_dist)

(* the scan of one lane's cars in list order: acc holds the running          *)
(* lane_score, the obstacle count, the nearest obstacle and the two flags    *)
RECURSIVE lane_scan(_, _, _, _, _, _)
lane_scan(vehicle, traffic_cars, k, lane_idx, current_lane, acc) ==
    IF k > Len(traffic_cars) THEN acc
    ELSE IF traffic_cars[k].lane # lane_idx
    THEN lane_scan(vehicle, traffic_cars, k + 1, lane_idx, current_lane, acc)
    ELSE LET dist == traffic_cars[k].distance - vehicle.distance
             safety_margin == K(250) + vehicle.speed * 35
             emergency_distance == K(200) + vehicle.speed * 25
             ahead == 0 < dist /\ dist < K(1000)
             penalty == IF ~ahead THEN 0
                        ELSE IF dist < emergency_distance THEN 500
                        ELSE IF dist < safety_margin THEN 300
                        ELSE IF dist < K(500) THEN 100
                        ELSE IF dist < K(800) THEN 30
                        ELSE 0
             beside == lane_idx # current_lane /\ -K(80) < dist /\ dist < K(80)
         IN  lane_scan(vehicle, traffic_cars, k + 1, lane_idx, current_lane,
                [score |-> IF beside THEN -10000 ELSE acc.score - penalty,
                 obstacles_count |-> acc.obstacles_count + (IF ahead THEN 1 ELSE 0),
                 min_obstacle_dist |-> IF ahead THEN Min(acc.min_obstacle_dist, dist)
                                       ELSE acc.min_obstacle_dist,
                 immediate_danger |-> acc.immediate_danger \/ (ahead /\ dist < emergency_distance),
                 side_collision_risk |-> acc.side_collision_risk \/ beside])

(* lane_safety_scores[lane_idx] of ai_decision_fuzzy *)
lane_safety_score(vehicle, traffic_cars, lane_idx, current_lane) ==
    LET scanned == lane_scan(vehicle, traffic_cars, 1, lane_idx, current_lane,
                        [score |-> 1000, obstacles_count |-> 0, min_obstacle_dist |-> K(10000),
                         immediate_danger |-> FALSE, side_collision_risk |-> FALSE])
    IN  [scanned EXCEPT !.score =
            @ - scanned.obstacles_count * 50
              + (IF scanned.obstacles_count = 0 THEN 500
                 ELSE IF scanned.obstacles_count = 1 /\ scanned.min_obstacle_dist > K(400) THEN 200
                 ELSE 0)
              + (IF lane_idx = current_lane /\ ~scanned.immediate_danger THEN 150 ELSE 0)
              - (IF Abs(lane_idx - current_lane) = 2 THEN 100 ELSE 0)]

(* the lane change of ai_decision_fuzzy toward the first lane of highest     *)
(* safety score                                                              *)
fuzzy_lane_change(vehicle, traffic_cars) ==
    LET current_lane == get_lane_from_x(vehicle.x)
        scores == [lane \in Lanes |-> lane_safety_score(vehicle, traffic_cars, lane, current_lane)]
        safest_lane == CHOOSE lane \in Lanes : \A other \in Lanes :
                            \/ scores[lane].score > scores[other].score
                            \/ scores[lane].score = scores[other].score /\ lane <= other
        safest_lane_info == scores[safest_lane]
        current_lane_info == scores[current_lane]
        should_change_lane ==
            IF current_lane_info.immediate_danger /\ ~safest_lane_info.side_collision_risk
            THEN safest_lane # current_lane /\ safest_lane_info.score > -1000
            ELSE /\ safest_lane # current_lane
                 /\ safest_lane_info.score - current_lane_info.score > 200
                 /\ ~safest_lane_info.side_collision_risk
        steering_speed == IF current_lane_info.immediate_danger THEN K(14)
                          ELSE IF current_lane_info.min_obstacle_dist < K(300) THEN K(11)
                          ELSE IF safest_lane_info.score > current_lane_info.score + 400 THEN K(9)
                          ELSE K(7)
    IN  IF should_change_lane /\ safest_lane # current_lane
        THEN steer_if_off_target(vehicle, lane_positions(safest_lane), steering_speed)
        ELSE vehicle

(* collection_score of one power-up in ai_decision_fuzzy, in thousandths *)
collection_score(vehicle, powerup, traffic_cars, opponent, current_lane) ==
    LET distance_to_powerup == powerup.distance - vehicle.distance
        lane_diff == Abs(powerup.lane - current_lane)
        seen == cars_ahead(vehicle, traffic_cars, powerup.lane, K(400))
        traffic_in_powerup_lane == Cardinality(seen)
        min_traffic_dist ==
            IF seen = {} THEN K(10000)
            ELSE Min(K(10000), traffic_cars[first_nearest(traffic_cars, seen)].distance - vehicle.distance)
        immediate_danger ==
            \E i \in seen : Abs(traffic_cars[i].distance - powerup.distance) < K(80)
        lane_safe == is_lane_safe_for_powerup(vehicle, powerup.lane, traffic_cars, K(250))
        opponent_dist == opponent.distance - vehicle.distance
    IN  get_priority_value(powerup) * 30
        + (IF distance_to_powerup < K(150) THEN K(60)
           ELSE IF distance_to_powerup < K(300) THEN K(40)
           ELSE IF distance_to_powerup < K(450) THEN K(25)
           ELSE K(15))
        + (IF lane_diff = 0 THEN K(70)
           ELSE IF lane_diff = 1 THEN (IF lane_safe THEN K(35) ELSE -K(20))
           ELSE (IF lane_safe THEN K(15) ELSE -K(30)))
        + (IF immediate_danger THEN -K(50)
           ELSE IF traffic_in_powerup_lane = 0 THEN K(40)
           ELSE IF traffic_in_powerup_lane = 1 /\ min_traffic_dist > K(150) THEN K(25)
           ELSE IF traffic_in_powerup_lane <= 2 /\ min_traffic_dist > K(100) THEN K(10)
           ELSE -K(10))
        + (IF powerup.type \in {"ghost", "shield", "emp", "magnet"} THEN K(20) ELSE 0)
        + (IF ~opponent.present THEN 0
           ELSE IF ~vehicle.is_police
           THEN (IF opponent_dist < K(200)
                 THEN (IF powerup.type \in {"freeze", "shield", "ghost"} THEN K(100)
                       ELSE IF powerup.type = "boost" THEN K(80) ELSE 0)
                 ELSE IF opponent_dist < K(400)
                 THEN (IF powerup.type \in {"freeze", "shield", "ghost"} THEN K(60)
                       ELSE IF powerup.type \in {"boost", "turbo"} THEN K(50) ELSE 0)
                 ELSE 0)
           ELSE (IF opponent_dist < K(300)
                 THEN (IF powerup.type \in {"emp", "spike", "magnet"} THEN K(70) ELSE 0)
                 ELSE IF opponent_dist < K(500)
                 THEN (IF powerup.type \in {"emp", "turbo", "magnet"} THEN K(45)
                       ELSE IF powerup.type = "roadblock" THEN K(40) ELSE 0)
                 ELSE 0))

(* the power-up steering of ai_decision_fuzzy: current_lane is the lane      *)
(* before the lane change, vehicle the car after it                          *)
fuzzy_powerup_steering(vehicle, powerups, traffic_cars, opponent, current_lane) ==
    LET reachable == {i \in DOMAIN powerups :
                        /\ ~powerups[i].collected
                        /\ powerups[i].for_police = vehicle.is_police
                        /\ 0 < powerups[i].distance - vehicle.distance
                        /\ powerups[i].distance - vehicle.distance < K(600)
                        /\ collection_score(vehicle, powerups[i], traffic_cars, opponent,
                                            current_lane) > 0}
        score(i) == collection_score(vehicle, powerups[i], traffic_cars, opponent, current_lane)
        best == CHOOSE i \in reachable : \A j \in reachable :
                    score(i) > score(j) \/ (score(i) = score(j) /\ i <= j)
        opponent_dist == opponent.distance - vehicle.distance
        collection_threshold ==
            IF opponent.present /\ ~vehicle.is_police
            THEN (IF opponent_dist < K(200) THEN K(40)
                  ELSE IF opponent_dist < K(400) THEN K(50)
                  ELSE K(60))
            ELSE K(60)
    IN  IF reachable # {} /\ score(best) > collection_threshold
           /\ powerups[best].lane # current_lane
        THEN steer_if_off_target(vehicle, lane_positions(powerups[best].lane), K(9))
        ELSE vehicle

(* Vehicle.ai_decision_fuzzy *)
ai_decision_fuzzy(vehicle, traffic_cars, powerups, opponent, ghost_mode) ==
    LET safety_check == predictive_safety_check(vehicle, traffic_cars)
        current_lane == get_lane_from_x(vehicle.x)
        obstacle_dist == nearest_obstacle_dist(vehicle, traffic_cars, current_lane)
        acceleration ==
            adjust_acceleration(
                get_fuzzy_speed_control(vehicle, traffic_cars, opponent, vehicle.is_police),
                obstacle_dist,
                can_safely_change_lane(vehicle, traffic_cars, current_lane))
        sped == fuzzy_apply_speed(vehicle, opponent, acceleration, obstacle_dist)
        steered == fuzzy_lane_change(sped, traffic_cars)
    IN  IF vehicle.crashed THEN vehicle
        ELSE IF safety_check.urgency \in {"critical", "high"}
        THEN emergency_mode(vehicle, safety_check)
        ELSE enforce_speed_limit(
                fuzzy_powerup_steering(steered, powerups, traffic_cars, opponent, current_lane))

(* ------------------------ ai_decision_minimax --------------------------- *)
(* the GameState snapshot ai_decision_minimax hands to the solver: traffic   *)
(* and uncollected power-ups within 1000 units of the vehicle                *)
minimax_game_state(vehicle, traffic_cars, powerups, opponent) ==
    LET current_lane == get_lane_from_x(vehicle.x)
        opponent_lane == IF opponent.present THEN get_lane_from_x(opponent.x) ELSE 1
        near_cars == SelectSeq(traffic_cars,
                        LAMBDA car : Abs(car.distance - vehicle.distance) < K(1000))
        near_powerups == SelectSeq(powerups,
                            LAMBDA pw : ~pw.collected /\ Abs(pw.distance - vehicle.distance) < K(1000))
    IN  [police_lane |-> IF vehicle.is_police THEN current_lane ELSE opponent_lane,
         police_distance |-> IF vehicle.is_police THEN vehicle.distance ELSE opponent.distance,
         police_speed |-> IF vehicle.is_police THEN vehicle.speed ELSE opponent.speed,
         thief_lane |-> IF vehicle.is_police THEN opponent_lane ELSE current_lane,
         thief_distance |-> IF vehicle.is_police THEN opponent.distance ELSE vehicle.distance,
         thief_speed |-> IF vehicle.is_police THEN opponent.speed ELSE vehicle.speed,
         traffic |-> [i \in DOMAIN near_cars |-> <<near_cars[i].lane, near_cars[i].distance>>],
         powerups |-> [i \in DOMAIN near_powerups |->
                        [lane |-> near_powerups[i].lane, distance |-> near_powerups[i].distance,
                         type |-> near_powerups[i].type,
                         for_police |-> near_powerups[i].for_police]]]

(* MinimaxDecisionMaker._generate_actions, as the set of (lane, speed_change) *)
(* moves it lists                                                            *)
generate_actions(state, is_police) ==
    LET current_lane == IF is_police THEN state.police_lane ELSE state.thief_lane
        current_distance == IF is_police THEN state.police_distance ELSE state.thief_distance
        lane_options == {current_lane}
                        \cup (IF current_lane > 0 THEN {current_lane - 1} ELSE {})
                        \cup (IF current_lane < 2 THEN {current_lane + 1} ELSE {})
        traffic_in_current == count_traffic_ahead(state, current_lane, current_distance, K(250))
    IN  {[lane |-> lane, speed_change |-> speed] :
            lane \in lane_options, speed \in {"accelerate", "maintain", "brake"}}
        \ (IF traffic_in_current > 2
           THEN {[lane |-> current_lane, speed_change |-> "accelerate"]} ELSE {})

(* the speed execution of a Minimax move for the police (or without an       *)
(* opponent) and for the thief with the police 400 or more away              *)
minimax_speed_normal(vehicle, speed_change) ==
    IF speed_change = "accelerate" THEN accelerate(vehicle, 1300)
    ELSE IF speed_change = "maintain"
    THEN (IF vehicle.speed < vehicle.max_speed - 100 THEN accelerate(vehicle, 1000) ELSE vehicle)
    ELSE brake(vehicle, 1000, 500)

(* the speed execution of a Minimax move *)
minimax_apply_speed(vehicle, opponent, speed_change) ==
    IF opponent.present /\ ~vehicle.is_police
    THEN LET distance_to_police == Abs(opponent.distance - vehicle.distance)
         IN  IF distance_to_police < K(200)
             THEN (IF speed_change # "brake" THEN accelerate(vehicle, 1500)
                   ELSE brake(vehicle, 600, 700))
             ELSE IF distance_to_police < K(400)
             THEN (IF speed_change = "accelerate" THEN accelerate(vehicle, 1400)
                   ELSE IF speed_change = "maintain" THEN accelerate(vehicle, 1200)
                   ELSE brake(vehicle, 700, 650))
             ELSE minimax_speed_normal(vehicle, speed_change)
    ELSE minimax_speed_normal(vehicle, speed_change)

(* the steering speed shared by the Minimax and A* executions: 10 with a car *)
(* less than 200 ahead in the current lane, 8 above speed 6, else 7          *)
avoidance_steering_speed(vehicle, traffic_cars, current_lane) ==
    IF cars_ahead(vehicle, traffic_cars, current_lane, K(200)) # {} THEN K(10)
    ELSE IF vehicle.speed > K(6) THEN K(8)
    ELSE K(7)

(* Vehicle.ai_decision_minimax, for the move best_action that get_best_move  *)
(* returns.  get_best_move cuts its search off by wall-clock time            *)
(* (pygame.time.get_ticks against max_time_ms = 15), so which of the         *)
(* generated moves it returns is not determined by the game state.           *)
ai_decision_minimax(vehicle, traffic_cars, powerups, opponent, ghost_mode, best_action) ==
    LET safety_check == predictive_safety_check(vehicle, traffic_cars)
        current_lane == get_lane_from_x(vehicle.x)
        cautious == IF safety_check.urgency = "high" THEN brake(vehicle, 800, 500) ELSE vehicle
        steered == steer_if_off_target(cautious, lane_positions(best_action.lane),
                        avoidance_steering_speed(cautious, traffic_cars, current_lane))
    IN  IF vehicle.crashed THEN vehicle
        ELSE IF safety_check.urgency = "critical"
        THEN enforce_speed_limit(emergency_lane_change(brake(vehicle, 2000, 250), safety_check, K(14)))
        ELSE enforce_speed_limit(minimax_apply_speed(steered, opponent, best_action.speed_change))

(* the moves get_best_move can return for the vehicle *)
minimax_moves(vehicle, traffic_cars, powerups, opponent) ==
    generate_actions(minimax_game_state(vehicle, traffic_cars, powerups, opponent),
                     vehicle.is_police)

(* -------------------------- ai_decision_astar --------------------------- *)
(* AStarPathfinder.find_clearest_lane: the first lane with the fewest cars   *)
(* ahead within look_ahead and, among those, the farthest nearest car        *)
find_clearest_lane(current_distance, traffic_cars, look_ahead) ==
    LET seen(lane) == {i \in DOMAIN traffic_cars :
                        /\ traffic_cars[i].lane = lane
                        /\ 0 < traffic_cars[i].distance - current_distance
                        /\ traffic_cars[i].distance - current_distance < look_ahead}
        min_distance(lane) ==
            IF seen(lane) = {} THEN Infinity
            ELSE traffic_cars[first_nearest(traffic_cars, seen(lane))].distance - current_distance
        before(a, b) == \/ Cardinality(seen(a)) < Cardinality(seen(b))
                        \/ /\ Cardinality(seen(a)) = Cardinality(seen(b))
                           /\ min_distance(a) > min_distance(b)
    IN  CHOOSE lane \in Lanes : \A other \in Lanes :
            before(lane, other) \/ (~before(other, lane) /\ lane <= other)

(* the first index of S with the least key *)
first_least(S, key(_)) ==
    CHOOSE i \in S : \A j \in S : key(i) < key(j) \/ (key(i) = key(j) /\ i <= j)

(* the goal the police plans for *)
police_goal(vehicle, traffic_cars, powerups, opponent) ==
    LET current_lane == get_lane_from_x(vehicle.x)
        current_distance == vehicle.distance
        distance_to_thief == opponent.distance - vehicle.distance
        thief_lane == get_lane_from_x(opponent.x)
        wanted == {i \in DOMAIN powerups :
                    /\ ~powerups[i].collected /\ powerups[i].for_police
                    /\ 0 < powerups[i].distance - current_distance
                    /\ powerups[i].distance - current_distance < K(900)}
        effective_dist(i) == powerups[i].distance - current_distance
                             - get_priority_value(powerups[i]) * 200
        closest_police_powerup == first_least(wanted, effective_dist)
        lane_traffic_count ==
            Cardinality({i \in DOMAIN traffic_cars :
                /\ traffic_cars[i].lane = thief_lane
                /\ 0 < traffic_cars[i].distance - current_distance
                /\ traffic_cars[i].distance - current_distance < K(500)})
        intercept_distance == opponent.distance - K(50)
        check_lanes == <<Max(0, thief_lane - 1), thief_lane, Min(2, thief_lane + 1)>>
        obstacle_count(k) ==
            Cardinality({i \in DOMAIN traffic_cars :
                /\ traffic_cars[i].lane = check_lanes[k]
                /\ Abs(traffic_cars[i].distance - intercept_distance) < K(300)})
    IN  IF ~opponent.present
        THEN [lane |-> find_clearest_lane(current_distance, traffic_cars, K(800)),
              distance |-> current_distance + K(800)]
        ELSE IF distance_to_thief > K(400)
        THEN [lane |-> find_clearest_lane(current_distance, traffic_cars, K(800)),
              distance |-> current_distance + K(900)]
        ELSE IF distance_to_thief > K(200)
        THEN (IF wanted # {}
              THEN [lane |-> powerups[closest_police_powerup].lane,
                    distance |-> powerups[closest_police_powerup].distance]
              ELSE [lane |-> IF lane_traffic_count > 2
                             THEN find_clearest_lane(current_distance, traffic_cars, K(700))
                             ELSE thief_lane,
                    distance |-> current_distance + K(700)])
        ELSE IF distance_to_thief > K(50)
        THEN [lane |-> check_lanes[first_least(1 .. 3, obstacle_count)],
              distance |-> intercept_distance]
        ELSE [lane |-> thief_lane,
              distance |-> Max(opponent.distance - K(20), current_distance)]

(* the goal the thief plans for *)
thief_goal(vehicle, traffic_cars, powerups, opponent) ==
    LET current_distance == vehicle.distance
        wanted == {i \in DOMAIN powerups :
                    /\ ~powerups[i].collected /\ ~powerups[i].for_police
                    /\ 0 < powerups[i].distance - current_distance
                    /\ powerups[i].distance - current_distance < K(1500)}
        police_close == opponent.present /\ opponent.distance - current_distance > -K(400)
        priority_bonus(i) ==
            (CASE powerups[i].type = "freeze" -> -K(300)
               [] powerups[i].type \in {"ghost", "shield"} -> -K(250)
               [] powerups[i].type \in {"turbo", "boost"} -> -K(200)
               [] OTHER -> -K(100))
            - (IF police_close /\ powerups[i].type \in {"freeze", "shield", "ghost"}
               THEN K(150) ELSE 0)
        effective_distance(i) == powerups[i].distance - current_distance + priority_bonus(i)
        closest_powerup == powerups[first_least(wanted, effective_distance)]
        in_goal_lane == {i \in DOMAIN traffic_cars :
                            /\ traffic_cars[i].lane = closest_powerup.lane
                            /\ 0 < traffic_cars[i].distance - current_distance
                            /\ traffic_cars[i].distance - current_distance < K(500)}
        immediate_danger ==
            \E i \in in_goal_lane : Abs(traffic_cars[i].distance - closest_powerup.distance) < K(80)
        distance_to_police == opponent.distance - current_distance
    IN  IF wanted # {}
        THEN (IF immediate_danger \/ Cardinality(in_goal_lane) > 5
              THEN [lane |-> find_clearest_lane(current_distance, traffic_cars, K(800)),
                    distance |-> current_distance + K(800)]
              ELSE [lane |-> closest_powerup.lane, distance |-> closest_powerup.distance])
        ELSE [lane |-> find_clearest_lane(current_distance, traffic_cars, K(1000)),
              distance |-> IF ~opponent.present THEN current_distance + K(750)
                           ELSE IF distance_to_police > -K(100) THEN current_distance + K(1000)
                           ELSE IF distance_to_police > -K(300) THEN current_distance + K(850)
                           ELSE current_distance + K(700)]

(* glide toward target_speed: brake by brake_rate * down when faster, else   *)
(* accelerate by acceleration_rate * up, never past target_speed             *)
match_speed(vehicle, target_speed, down, up) ==
    IF vehicle.speed > target_speed
    THEN [vehicle EXCEPT !.speed = Max(@ - Times(brake_rate(vehicle), down), target_speed)]
    ELSE [vehicle EXCEPT !.speed = Min(@ + Times(acceleration_rate(vehicle), up), target_speed)]

(* the obstacle-based speed control at the end of ai_decision_astar *)
astar_obstacle_speed(vehicle, traffic_cars, current_lane, ghost_mode) ==
    LET seen == IF ghost_mode THEN {}
                ELSE cars_ahead(vehicle, traffic_cars, current_lane, K(500) + vehicle.speed * 60)
        closest_obstacle_distance ==
            traffic_cars[first_nearest(traffic_cars, seen)].distance - vehicle.distance
    IN  IF seen = {} THEN accelerate(vehicle, 1200)
        ELSE IF closest_obstacle_distance < K(120) THEN brake(vehicle, 2500, 300)
        ELSE IF closest_obstacle_distance < K(200) THEN brake(vehicle, 1800, 500)
        ELSE IF closest_obstacle_distance < K(300) THEN brake(vehicle, 1200, 650)
        ELSE IF closest_obstacle_distance < K(450) THEN brake(vehicle, 700, 800)
        ELSE brake(vehicle, 300, 900)

(* the speed control of ai_decision_astar once a path of two or more         *)
(* waypoints is followed.  The four police zones return at once, without     *)
(* enforce_speed_limit; every other case ends in enforce_speed_limit.        *)
astar_speed_control(vehicle, traffic_cars, opponent, current_lane, ghost_mode) ==
    LET distance_to_thief == opponent.distance - vehicle.distance
    IN  IF vehicle.is_police /\ opponent.present /\ distance_to_thief < K(50)
        THEN [vehicle EXCEPT !.speed =
                Max(@ - Times(brake_rate(vehicle), 1500),
                    Min(Times(opponent.speed, 700), Times(vehicle.max_speed, 500)))]
        ELSE IF vehicle.is_police /\ opponent.present /\ distance_to_thief < K(100)
        THEN match_speed(vehicle, Min(opponent.speed, Times(vehicle.max_speed, 850)), 1000, 500)
        ELSE IF vehicle.is_police /\ opponent.present /\ distance_to_thief < K(150)
        THEN match_speed(vehicle,
                Min(Times(opponent.speed, 1100), Times(vehicle.max_speed, 900)), 700, 800)
        ELSE IF vehicle.is_police /\ opponent.present /\ distance_to_thief <= 0
        THEN [vehicle EXCEPT !.speed = Max(@ - Times(brake_rate(vehicle), 2000), K(2))]
        ELSE enforce_speed_limit(
                astar_obstacle_speed(vehicle, traffic_cars, current_lane, ghost_mode))

(* Vehicle.ai_decision_astar; heuristic_type is that of the pathfinder the   *)
(* vehicle is given (main: thief_astar Manhattan, police_astar Euclidean)    *)
ai_decision_astar(vehicle, traffic_cars, powerups, opponent, ghost_mode, heuristic_type) ==
    LET safety_check == predictive_safety_check(vehicle, traffic_cars)
        current_lane == get_lane_from_x(vehicle.x)
        goal == IF vehicle.is_police THEN police_goal(vehicle, traffic_cars, powerups, opponent)
                ELSE thief_goal(vehicle, traffic_cars, powerups, opponent)
        path == find_path([heuristic_type |-> heuristic_type,
                           start_lane |-> current_lane, start_distance |-> vehicle.distance,
                           goal_lane |-> goal.lane, goal_distance |-> goal.distance,
                           traffic_cars |-> traffic_cars, opponent |-> opponent,
                           ghost_mode |-> ghost_mode, is_police |-> vehicle.is_police,
                           vehicle_speed |-> vehicle.speed])
        steered == steer_if_off_target(vehicle, lane_positions(path[2][1]),
                        avoidance_steering_speed(vehicle, traffic_cars, current_lane))
    IN  IF vehicle.crashed THEN vehicle
        ELSE IF safety_check.urgency \in {"critical", "high"}
        THEN emergency_mode(vehicle, safety_check)
        ELSE IF Len(path) > 1
        THEN astar_speed_control(steered, traffic_cars, opponent, current_lane, ghost_mode)
        ELSE enforce_speed_limit(vehicle)

(* ----------------------- priority decision hierarchy -------------------- *)
(* An outcome of one arbiter call: the vehicle after the call and ran, the   *)
(* parts of the arbiter that executed, in order.                             *)
Outcome(vehicle, ran) == [vehicle |-> vehicle, ran |-> ran]

(* the systems in the order of the weights dictionary *)
Systems == <<"safety", "fuzzy", "minimax", "astar">>

(* "DETERMINE WEIGHTS BASED ON SITUATION" with the medium-distance weights   *)
(* a copy of the close-opponent weights                                      *)
situation_weights_close_row_twice(urgency, distance_to_opponent) ==
    IF urgency \in {"high", "moderate"}
    THEN [safety |-> 600, fuzzy |-> 300, minimax |-> 50, astar |-> 50]
    ELSE IF distance_to_opponent < K(800)
    THEN [safety |-> 250, fuzzy |-> 450, minimax |-> 250, astar |-> 50]
    ELSE [safety |-> 100, fuzzy |-> 150, minimax |-> 200, astar |-> 550]

(* "DETERMINE WEIGHTS BASED ON SITUATION": the weights in thousandths *)
situation_weights(urgency, distance_to_opponent) ==
    IF urgency \in {"high", "moderate"}
    THEN [safety |-> 600, fuzzy |-> 300, minimax |-> 50, astar |-> 50]
    ELSE IF distance_to_opponent < K(300)
    THEN [safety |-> 250, fuzzy |-> 450, minimax |-> 250, astar |-> 50]
    ELSE IF distance_to_opponent < K(800)
    THEN [safety |-> 150, fuzzy |-> 250, minimax |-> 450, astar |-> 150]
    ELSE [safety |-> 100, fuzzy |-> 150, minimax |-> 200, astar |-> 550]

(* max(weights, key=weights.get): the first system of the highest weight *)
heaviest(weights) ==
    Systems[CHOOSE i \in DOMAIN Systems : \A j \in DOMAIN Systems :
                \/ weights[Systems[i]] > weights[Systems[j]]
                \/ weights[Systems[i]] = weights[Systems[j]] /\ i <= j]

(* primary_system = max(weights, key=weights.get) for the weights of the     *)
(* situation                                                                 *)
primary_system(urgency, distance_to_opponent) ==
    heaviest(situation_weights(urgency, distance_to_opponent))

(* the post-decision safety check that closes the arbiter *)
post_decision_check(vehicle, safety_check) ==
    IF /\ safety_check.urgency = "critical"
       /\ safety_check.brake_intensity > 900
       /\ vehicle.speed > Times(vehicle.max_speed, 700)
    THEN brake(vehicle, Times(safety_check.brake_intensity, 200), 600)
    ELSE vehicle

(* "EXECUTE PRIMARY SYSTEM DECISION": the executor of the primary system; the *)
(* result is the set of vehicles it can leave, one for each move             *)
(* get_best_move can return when Minimax is the primary system               *)
execute_primary(primary, vehicle, safety_check, traffic_cars, powerups, opponent, ghost_mode, heuristic_type) ==
    CASE primary = "safety" ->
            {execute_safety_influenced_decision(vehicle, safety_check)}
      [] primary = "fuzzy" ->
            {ai_decision_fuzzy(vehicle, traffic_cars, powerups, opponent, ghost_mode)}
      [] primary = "minimax" ->
            {ai_decision_minimax(vehicle, traffic_cars, powerups, opponent, ghost_mode,
                                 best_action) :
                best_action \in minimax_moves(vehicle, traffic_cars, powerups, opponent)}
      [] OTHER ->
            {ai_decision_astar(vehicle, traffic_cars, powerups, opponent, ghost_mode,
                               heuristic_type)}

(* priority_decision_hierarchy from "PRIORITY 2" to its end: power-up        *)
(* micro-steering, the choice of the primary system, its execution and the   *)
(* post-decision check.  The result is the set of outcomes of the call.      *)
blended_decision(vehicle, safety_check, traffic_cars, powerups, opponent, ghost_mode, heuristic_type, ran) ==
    LET urgency == safety_check.urgency
        target_power == IF urgency \notin {"high", "critical"}
                        THEN choose_best_power(vehicle, powerups, traffic_cars) ELSE 0
        nudged == IF target_power # 0 THEN micro_steer(vehicle, powerups[target_power])
                  ELSE vehicle
        ran_nudge == IF target_power # 0 THEN Append(ran, "power_nudge") ELSE ran
        distance_to_opponent == IF opponent.present THEN Abs(opponent.distance - nudged.distance)
                                ELSE Infinity
        primary == primary_system(urgency, distance_to_opponent)
    IN  {Outcome(post_decision_check(v, safety_check), Append(ran_nudge, primary)) :
            v \in execute_primary(primary, nudged, safety_check, traffic_cars, powerups,
                                  opponent, ghost_mode, heuristic_type)}

(* the arbiter without the return that follows the critical override *)
priority_decision_hierarchy_falls_through(vehicle, traffic_cars, powerups, opponent, ghost_mode, heuristic_type) ==
    LET safety_check == predictive_safety_check(vehicle, traffic_cars)
    IN  IF vehicle.crashed THEN {Outcome(vehicle, <<>>)}
        ELSE IF safety_check.urgency = "critical"
        THEN blended_decision(execute_safety_override(vehicle, safety_check), safety_check,
                              traffic_cars, powerups, opponent, ghost_mode, heuristic_type,
                              <<"safety_override">>)
        ELSE blended_decision(vehicle, safety_check, traffic_cars, powerups, opponent,
                              ghost_mode, heuristic_type, <<>>)

(* Vehicle.priority_decision_hierarchy: the set of outcomes of one call *)
priority_decision_hierarchy(vehicle, traffic_cars, powerups, opponent, ghost_mode, heuristic_type) ==
    LET safety_check == predictive_safety_check(vehicle, traffic_cars)
    IN  IF vehicle.crashed THEN {Outcome(vehicle, <<>>)}
        ELSE IF safety_check.urgency = "critical"
        THEN {Outcome(execute_safety_override(vehicle, safety_check), <<"safety_override">>)}
        ELSE blended_decision(vehicle, safety_check, traffic_cars, powerups, opponent,
                              ghost_mode, heuristic_type, <<>>)

(* ---------------------- decision entry points --------------------------- *)
(* How a call of a decision method ends: it returns or it raises, and in     *)
(* either case leaves the vehicle as it was made up to that point.           *)
Returns(vehicle) == [raised |-> FALSE, vehicle |-> vehicle]
Raises(vehicle) == [raised |-> TRUE, vehicle |-> vehicle]

(* ai_decision_csp without the crashed check in front *)
ai_decision_csp_unguarded(vehicle, traffic_cars, powerups, opponent, ghost_mode) ==
    {Raises(vehicle)}

(* Vehicle.ai_decision_csp with a CSPDecisionMaker as csp_solver: after the  *)
(* crashed check and the safety check it calls csp_solver.get_lane_from_x,   *)
(* which CSPDecisionMaker does not define (its method is _get_current_lane), *)
(* so the call raises AttributeError before the vehicle is touched           *)
ai_decision_csp(vehicle, traffic_cars, powerups, opponent, ghost_mode) ==
    IF vehicle.crashed THEN {Returns(vehicle)} ELSE {Raises(vehicle)}

(* Vehicle.ai_decision_minimax as called: with opponent None the GameState   *)
(* construction reads opponent.distance and raises AttributeError, after the *)
(* proactive brake of high urgency; the critical emergency mode returns      *)
(* before it                                                                 *)
call_ai_decision_minimax(vehicle, traffic_cars, powerups, opponent, ghost_mode) ==
    IF vehicle.crashed \/ predictive_safety_check(vehicle, traffic_cars).urgency = "critical"
    THEN {Returns(ai_decision_minimax(vehicle, traffic_cars, powerups, opponent, ghost_mode,
                                      [lane |-> 1, speed_change |-> "maintain"]))}
    ELSE IF ~opponent.present
    THEN {Raises(IF predictive_safety_check(vehicle, traffic_cars).urgency = "high"
                 THEN brake(vehicle, 800, 500) ELSE vehicle)}
    ELSE {Returns(ai_decision_minimax(vehicle, traffic_cars, powerups, opponent, ghost_mode,
                                      best_action)) :
            best_action \in minimax_moves(vehicle, traffic_cars, powerups, opponent)}

EntryPoints ==
    {"priority_decision_hierarchy", "ai_decision_fuzzy", "ai_decision_minimax",
     "ai_decision_astar", "ai_decision_csp", "solve_lane_decision"}

(* the pathfinder main() gives the role *)
role_heuristic(vehicle) == IF vehicle.is_police THEN "euclidean" ELSE "manhattan"

(* one call of an entry point; solve_lane_decision leaves the vehicle alone  *)
(* and returns a decision                                                    *)
call_entry(entry, vehicle, traffic_cars, powerups, opponent, ghost_mode) ==
    CASE entry = "priority_decision_hierarchy" ->
            {Returns(outcome.vehicle) :
                outcome \in priority_decision_hierarchy(vehicle, traffic_cars, powerups, opponent,
                                                        ghost_mode, role_heuristic(vehicle))}
      [] entry = "ai_decision_fuzzy" ->
            {Returns(ai_decision_fuzzy(vehicle, traffic_cars, powerups, opponent, ghost_mode))}
      [] entry = "ai_decision_minimax" ->
            call_ai_decision_minimax(vehicle, traffic_cars, powerups, opponent, ghost_mode)
      [] entry = "ai_decision_astar" ->
            {Returns(ai_decision_astar(vehicle, traffic_cars, powerups, opponent, ghost_mode,
                                       role_heuristic(vehicle)))}
      [] entry = "ai_decision_csp" ->
            ai_decision_csp(vehicle, traffic_cars, powerups, opponent, ghost_mode)
      [] OTHER -> {Returns(vehicle)}

EntryBase == K(3000)

EntryVehicles ==
    {[x |-> lane_positions(lane), distance |-> EntryBase, speed |-> speed, max_speed |-> K(8),
      is_police |-> is_police, crashed |-> crash_timer > 0, crash_timer |-> crash_timer] :
        lane \in {0, 1}, speed \in {K(2), K(8)}, is_police \in BOOLEAN, crash_timer \in {0, 30}}

EntryOpponents ==
    {NoOpponent} \cup
    {[present |-> TRUE, x |-> lane_positions(1), distance |-> EntryBase + d, speed |-> K(6)] :
        d \in {-K(250), K(450)}}

EntryPowerups ==
    {<<>>, <<PowerUp(1, EntryBase + K(200), "shield", FALSE),
             PowerUp(0, EntryBase + K(200), "turbo", TRUE)>>}

InitEntry ==
    /\ inp \in [entry : EntryPoints, vehicle : EntryVehicles,
                traffic : TrafficAround(EntryBase, {K(100), K(400)}, K(3)),
                powerups : EntryPowerups, opponent : EntryOpponents, ghost_mode : {FALSE}]
    /\ out = [kind |-> "none"]
    /\ NoRace

(* one call of the entry point on the vehicle *)
CallEntry ==
    /\ out.kind = "none"
    /\ \E result \in call_entry(inp.entry, inp.vehicle, inp.traffic, inp.powerups, inp.opponent, inp.ghost_mode) :
        out' = [kind |-> "entry", raised |-> result.raised, vehicle |-> result.vehicle,
                decision |-> IF inp.entry = "solve_lane_decision"
                             THEN solve_lane_decision(inp.vehicle, inp.traffic, inp.powerups,
                                                      inp.opponent, inp.ghost_mode)
                             ELSE <<>>]
    /\ UNCHANGED <<inp, race_vars>>

NextEntry == CallEntry

SpecEntry == InitEntry /\ [][NextEntry]_vars

(* C15: a crashed vehicle issues no decision: each of the five decision      *)
(* entry points returns and leaves x and speed as they were                  *)
C15_CrashedIssuesNoDecision ==
    (out.kind = "entry" /\ inp.vehicle.crashed /\ inp.entry # "solve_lane_decision") =>
        /\ ~out.raised
        /\ out.vehicle.x = inp.vehicle.x
        /\ out.vehicle.speed = inp.vehicle.speed

(* a crashed vehicle 100 behind a car in its lane, on which ai_decision_csp  *)
(* returned                                                                  *)
C15_Witness ==
    /\ out.kind = "entry"
    /\ inp.entry = "ai_decision_csp"
    /\ inp.vehicle.crashed
    /\ \E i \in DOMAIN inp.traffic :
            /\ inp.traffic[i].lane = get_lane_from_x(inp.vehicle.x)
            /\ inp.traffic[i].distance = inp.vehicle.distance + K(100)
    /\ ~out.raised
    /\ out.vehicle = inp.vehicle

(* C17: with the opponent absent the arbiter, ai_decision_fuzzy,             *)
(* ai_decision_minimax, ai_decision_astar and solve_lane_decision complete   *)
(* without raising                                                           *)
C17_NoOpponentNeverRaises ==
    (out.kind = "entry" /\ ~inp.opponent.present /\ inp.entry # "ai_decision_csp") =>
        ~out.raised

(* ------------------------- clear-road scenario -------------------------- *)
(* A vehicle created at speed 0 with max_speed 8 on an empty road: no        *)
(* traffic, no power-ups, no opponent.  Each tick is one call of             *)
(* priority_decision_hierarchy with the pathfinder main() gives the role;    *)
(* the scenario either leaves the vehicle where it is between the calls or   *)
(* moves it by its speed as the game loop does.                              *)
ClearRoadTicks == 60

InitClearRoad ==
    /\ inp \in [vehicle : {Vehicle(lane_positions(lane), distance, is_police) :
                                lane \in Lanes, distance \in {0, K(3000)}, is_police \in BOOLEAN},
                moves : BOOLEAN]
    /\ out = [kind |-> "clear_road", tick |-> 0, vehicle |-> inp.vehicle, before |-> inp.vehicle]
    /\ NoRace

ClearRoadTick ==
    /\ out.kind = "clear_road"
    /\ out.tick < ClearRoadTicks
    /\ \E outcome \in priority_decision_hierarchy(out.vehicle, <<>>, <<>>, NoOpponent, FALSE, IF out.vehicle.is_police THEN "euclidean" ELSE "manhattan") :
        out' = [out EXCEPT !.tick = @ + 1,
                           !.before = out.vehicle,
                           !.vehicle = IF inp.moves
                                       THEN [outcome.vehicle EXCEPT !.distance = @ + outcome.vehicle.speed]
                                       ELSE outcome.vehicle]
    /\ UNCHANGED <<inp, race_vars>>

NextClearRoad == ClearRoadTick

SpecClearRoad == InitClearRoad /\ [][NextClearRoad]_vars

(* C12: on the clear road the speed never decreases from one tick to the     *)
(* next, and after 60 ticks it has reached max_speed                         *)
C12_ClearRoadSpeedRises ==
    out.kind = "clear_road" =>
        /\ out.vehicle.speed >= out.before.speed
        /\ out.tick = ClearRoadTicks => out.vehicle.speed = out.vehicle.max_speed

(* the 60th tick is reached at max_speed, from a speed below it earlier on *)
C12_Witness ==
    /\ out.kind = "clear_road"
    /\ out.tick = ClearRoadTicks
    /\ inp.vehicle.speed = 0
    /\ out.vehicle.speed = K(8)

(* C13: on the clear road the vehicle stays in the lane it started in *)
C13_ClearRoadKeepsLane ==
    out.kind = "clear_road" => get_lane_from_x(out.vehicle.x) = get_lane_from_x(inp.vehicle.x)

(* -------------------------------- main loop ----------------------------- *)
(* One iteration of the game loop is taken in four steps, in the order of    *)
(* the code: the thief's turn, the power-up pickups, the police's turn, the  *)
(* world step.  Drawing, particles and audio change no state of the race and *)
(* are left out.                                                             *)
SCREEN_HEIGHT == 700

NoTimers ==
    [freeze_timer |-> 0, boost_timer |-> 0, shield_timer |-> 0, ghost_timer |-> 0,
     spike_timer |-> 0, emp_timer |-> 0, turbo_timer |-> 0, roadblock_timer |-> 0,
     roadblock_lane |-> -1, magnet_timer |-> 0]

count_down(timer) == IF timer > 0 THEN timer - 1 ELSE timer

(* "Update power-up timers": ghost_timer is not a duration and is not counted *)
(* down; the roadblock lane is reset in the tick after the timer reached 0    *)
update_timers(t) ==
    [t EXCEPT !.freeze_timer = count_down(@), !.boost_timer = count_down(@),
              !.shield_timer = count_down(@), !.spike_timer = count_down(@),
              !.emp_timer = count_down(@), !.turbo_timer = count_down(@),
              !.roadblock_timer = count_down(@),
              !.roadblock_lane = IF t.roadblock_timer > 0 THEN @ ELSE -1,
              !.magnet_timer = count_down(@)]

(* player.max_speed = base_max_speed * (1.5 if boost) * (0.7 if emp) *)
thief_max_speed(t) ==
    LET boosted == IF t.boost_timer > 0 THEN Times(base_max_speed, 1500) ELSE base_max_speed
    IN  IF t.emp_timer > 0 THEN Times(boosted, 700) ELSE boosted

(* police.max_speed = base_max_speed * (1.5 if turbo) * (0.6 if freeze) *)
police_max_speed(t) ==
    LET boosted == IF t.turbo_timer > 0 THEN Times(base_max_speed, 1500) ELSE base_max_speed
    IN  IF t.freeze_timer > 0 THEN Times(boosted, 600) ELSE boosted

(* the opponent argument of a decision call *)
as_opponent(vehicle) ==
    [present |-> TRUE, x |-> vehicle.x, distance |-> vehicle.distance, speed |-> vehicle.speed]

(* math.sqrt(dx**2 + dy**2) < radius; the squares are taken on hundredths *)
closer_than(dx, dy, radius) ==
    /\ Abs(dx) < radius
    /\ Abs(dy) < radius
    /\ (Abs(dx) \div 10) * (Abs(dx) \div 10) + (Abs(dy) \div 10) * (Abs(dy) \div 10)
          < (radius \div 10) * (radius \div 10)

(* PowerUp.check_collision without the early return on self.collected *)
check_collision_again(powerup, player_x, player_y, camera_offset) ==
    LET lane_x == lane_positions(powerup.lane)
        screen_y == K(SCREEN_HEIGHT \div 2) - (powerup.distance - camera_offset)
    IN  closer_than(player_x - lane_x, player_y - screen_y, K(45 \div 2 + 50 \div 2))

(* PowerUp.check_collision *)
check_collision(powerup, player_x, player_y, camera_offset) ==
    LET lane_x == lane_positions(powerup.lane)
        screen_y == K(SCREEN_HEIGHT \div 2) - (powerup.distance - camera_offset)
    IN  /\ ~powerup.collected
        /\ closer_than(player_x - lane_x, player_y - screen_y, K(45 \div 2 + 50 \div 2))

(* the record kept of one priority_decision_hierarchy call: who decided, the *)
(* urgency the safety layer reported at its start ("none" for a crashed      *)
(* vehicle, which returns before the safety layer runs), the vehicle before  *)
(* and after, what ran, and what _execute_safety_override alone makes of the *)
(* vehicle before the call                                                   *)
DecisionRecord(who, vehicle, cars, opponent, outcome) ==
    LET safety_check == predictive_safety_check(vehicle, cars)
    IN  [who |-> who,
         opponent |-> opponent,
         urgency |-> IF vehicle.crashed THEN "none" ELSE safety_check.urgency,
         before |-> vehicle,
         after |-> outcome.vehicle,
         ran |-> outcome.ran,
         override |-> execute_safety_override(vehicle, safety_check)]

(* the sections of the loop body with the pickups moved behind the police's *)
(* turn                                                                      *)
next_phase_pickups_last(phase) ==
    CASE phase = "thief" -> "police"
      [] phase = "police" -> "pickups"
      [] phase = "pickups" -> "world"
      [] phase = "world" -> "thief"

(* the sections of the loop body in the order of the code: the thief's       *)
(* turn, the two pickup loops, the police's turn, the world step             *)
next_phase(phase) ==
    CASE phase = "thief" -> "pickups"
      [] phase = "pickups" -> "police"
      [] phase = "police" -> "world"
      [] phase = "world" -> "thief"

(* number of loop iterations followed from an initial state *)
MaxTicks == 2

(* pygame.QUIT: the window is closed at the head of an iteration *)
Quit ==
    /\ game.phase = "thief"
    /\ ~game.game_over
    /\ game.tick < MaxTicks
    /\ game' = [game EXCEPT !.running = FALSE, !.game_over = TRUE]
    /\ UNCHANGED <<inp, out, player, police, traffic, power_ups, timers, last>>

(* "Apply EMP disruption": with probability 0.3 a jitter of -3..3 *)
emp_jitter(vehicle, jitters, jitter_amount) ==
    IF jitters THEN [vehicle EXCEPT !.x = clamp_to_road(@ + K(jitter_amount))] ELSE vehicle

(* timers, the thief's max_speed, its decision, the EMP jitter and its move *)
ThiefTurn ==
    /\ game.phase = "thief"
    /\ ~game.game_over
    /\ game.tick < MaxTicks
    /\ LET t == update_timers(timers)
           thief == [player EXCEPT !.max_speed = thief_max_speed(t)]
           disrupted == t.emp_timer > 0 /\ ~thief.crashed
       IN  \E outcome \in priority_decision_hierarchy(thief, traffic, power_ups, as_opponent(police), t.ghost_timer > 0, "manhattan") :
           \E jitters \in (IF disrupted THEN BOOLEAN ELSE {FALSE}) :
           \E jitter_amount \in (IF jitters THEN -3 .. 3 ELSE {0}) :
               LET jittered == emp_jitter(outcome.vehicle, jitters, jitter_amount)
                   moved == [jittered EXCEPT !.distance = @ + jittered.speed]
               IN  /\ timers' = t
                   /\ player' = update_crash(moved)
                   /\ last' = DecisionRecord("thief", thief, traffic, as_opponent(police), outcome)
    /\ game' = [game EXCEPT !.phase = next_phase(@)]
    /\ UNCHANGED <<inp, out, police, traffic, power_ups>>

(* the thief's pickups: each collected type starts its timer *)
thief_effects(t, types) ==
    [t EXCEPT !.freeze_timer = IF "freeze" \in types THEN 150 ELSE @,
              !.boost_timer = IF "boost" \in types THEN 120 ELSE @,
              !.shield_timer = IF "shield" \in types THEN 360 ELSE @,
              !.ghost_timer = IF "ghost" \in types THEN 1 ELSE @]

(* the police's pickups; the last roadblock collected in list order sets the *)
(* blocked lane                                                              *)
police_effects(t, powerups, collected) ==
    LET types == {powerups[i].type : i \in collected}
        roadblocks == {i \in collected : powerups[i].type = "roadblock"}
        last_roadblock == CHOOSE i \in roadblocks : \A j \in roadblocks : j <= i
    IN  [t EXCEPT !.spike_timer = IF "spike" \in types THEN 240 ELSE @,
                  !.emp_timer = IF "emp" \in types THEN 150 ELSE @,
                  !.turbo_timer = IF "turbo" \in types THEN 120 ELSE @,
                  !.roadblock_timer = IF roadblocks # {} THEN 420 ELSE @,
                  !.roadblock_lane = IF roadblocks # {} THEN powerups[last_roadblock].lane ELSE @,
                  !.magnet_timer = IF "magnet" \in types THEN 240 ELSE @]

(* "Check power-up collection", thief then police *)
CollectPowerups ==
    /\ game.phase = "pickups"
    /\ LET player_screen_y == K(SCREEN_HEIGHT \div 2)
           police_screen_y == police.distance - game.camera_offset + K(SCREEN_HEIGHT \div 2)
           by_thief == {i \in DOMAIN power_ups :
                           /\ ~power_ups[i].for_police
                           /\ check_collision(power_ups[i], player.x, player_screen_y, game.camera_offset)}
           by_police == {i \in DOMAIN power_ups :
                           /\ power_ups[i].for_police
                           /\ check_collision(power_ups[i], police.x, police_screen_y, game.camera_offset)}
       IN  /\ power_ups' = [i \in DOMAIN power_ups |->
                               IF i \in by_thief \cup by_police
                               THEN [power_ups[i] EXCEPT !.collected = TRUE] ELSE power_ups[i]]
           /\ timers' = police_effects(thief_effects(timers, {power_ups[i].type : i \in by_thief}),
                                       power_ups, by_police)
    /\ game' = [game EXCEPT !.phase = next_phase(@)]
    /\ UNCHANGED <<inp, out, player, police, traffic, last>>

(* "Apply Magnet effect": the thief is pulled sideways toward the police *)
magnet_pull(thief, cop, t) ==
    LET distance_apart == Abs(cop.distance - thief.distance)
        pull_strength == 500 + (K(350) - distance_apart) \div 100
    IN  IF /\ t.magnet_timer > 0
           /\ ~thief.crashed
           /\ distance_apart < K(350)
           /\ Abs(cop.x - thief.x) > K(10)
        THEN steer(thief, cop.x, pull_strength)
        ELSE thief

(* "Apply Spike effect": player.speed = max(speed - 0.1, max_speed * 0.6) *)
spike_slow(thief, t) ==
    IF t.spike_timer > 0 /\ ~thief.crashed
    THEN [thief EXCEPT !.speed = Max(@ - 100, Times(thief.max_speed, 600))]
    ELSE thief

(* the police's max_speed and decision (skipped while crashed), the magnet   *)
(* and spike effects on the thief, and the police's move                     *)
PoliceTurn ==
    /\ game.phase = "police"
    /\ LET cop == [police EXCEPT !.max_speed = police_max_speed(timers)]
       IN  \E outcome \in (IF police.crashed THEN {Outcome(police, <<>>)} ELSE priority_decision_hierarchy(cop, traffic, power_ups, as_opponent(player), FALSE, "euclidean")) :
               LET decided == outcome.vehicle
               IN  /\ player' = spike_slow(magnet_pull(player, decided, timers), timers)
                   /\ police' = update_crash([decided EXCEPT !.distance = @ + decided.speed])
                   /\ last' = IF police.crashed THEN last
                              ELSE DecisionRecord("police", cop, traffic, as_opponent(player), outcome)
    /\ game' = [game EXCEPT !.phase = next_phase(@)]
    /\ UNCHANGED <<inp, out, traffic, power_ups, timers>>

(* "Roadblock collision check": the roadblock is placed 300 ahead of the     *)
(* thief and hits when the thief is within 100 of it                         *)
roadblock_check(thief, t) ==
    LET roadblock_distance == thief.distance + K(300)
    IN  IF /\ t.roadblock_timer > 0
           /\ t.roadblock_lane >= 0
           /\ get_lane_from_x(thief.x) = t.roadblock_lane
           /\ ~thief.crashed
           /\ Abs(thief.distance - roadblock_distance) < K(100)
        THEN crash(thief)
        ELSE thief

(* math.sqrt((v.x - car.x)**2 + (v.distance - car.distance)**2) < 55 *)
overlaps(vehicle, car) ==
    closer_than(vehicle.x - car.x, vehicle.distance - car.distance, K(55))

(* the collision test without "if not player.crashed" / "if not            *)
(* police.crashed" in front                                                  *)
hits_while_crashed(vehicle, car) ==
    overlaps(vehicle, car)

(* "if not player.crashed: player_dist = math.sqrt(...); if player_dist < 55" *)
hits(vehicle, car) ==
    /\ ~vehicle.crashed
    /\ overlaps(vehicle, car)

(* "Check traffic collisions", car by car from index k on; c carries the     *)
(* thief, the police and the ghost forgiveness left                          *)
RECURSIVE check_traffic_collisions(_, _, _, _)
check_traffic_collisions(cars, k, c, shield_timer) ==
    IF k > Len(cars) THEN c
    ELSE LET thief_hit == hits(c.player, cars[k])
             forgiven == c.ghost_timer > 0 \/ shield_timer > 0
         IN  check_traffic_collisions(cars, k + 1,
                 [player |-> IF thief_hit /\ ~forgiven THEN crash(c.player) ELSE c.player,
                  police |-> IF hits(c.police, cars[k]) THEN crash(c.police) ELSE c.police,
                  ghost_timer |-> IF thief_hit THEN 0 ELSE c.ghost_timer],
                 shield_timer)

(* what random.randint / random.uniform may give a respawned car *)
SpawnOffsets == {K(1000), K(2000)}
SpawnSpeeds == {K(3)}

(* "while len(traffic_cars) < 50": cars are added until the list is full     *)
(* again or a drawn distance falls outside [1000, FINISH_LINE_DISTANCE)      *)
RECURSIVE respawn(_, _, _)
respawn(cars, missing, player_distance) ==
    IF missing = 0 THEN {cars}
    ELSE UNION {IF player_distance + o >= K(1000) /\ player_distance + o < K(FINISH_LINE_DISTANCE)
                THEN respawn(Append(cars, TrafficCar(lane, player_distance + o, v)),
                             missing - 1, player_distance)
                ELSE {cars} : lane \in Lanes, o \in SpawnOffsets, v \in SpawnSpeeds}

(* "Check win/lose conditions", in the order of the three tests *)
check_win(g, thief, cop) ==
    LET caught == \/ /\ Abs(thief.distance - cop.distance) < K(80)
                     /\ Abs(thief.x - cop.x) < K(100)
                  \/ cop.distance >= thief.distance - K(20)
        escaped == thief.distance >= K(FINISH_LINE_DISTANCE)
    IN  [g EXCEPT !.game_over = @ \/ caught \/ escaped,
                  !.winner = IF escaped THEN "thief" ELSE IF caught THEN "police" ELSE @]

(* a car one car.update() later *)
updated(car) == [car EXCEPT !.distance = @ - car.speed]

(* history kept for the ghost forgiveness: the car whose hit consumed it,    *)
(* followed for as long as the thief stays in contact with it; <<>> when     *)
(* there is none                                                             *)
forgiven_contact(previous, thief, cars, ghost_timer) ==
    LET hit == {k \in DOMAIN cars : hits(thief, cars[k])}
        first == CHOOSE k \in hit : \A j \in hit : k <= j
    IN  IF ghost_timer > 0 /\ hit # {} THEN cars[first]
        ELSE IF previous # <<>> /\ overlaps(thief, updated(previous)) THEN updated(previous)
        ELSE <<>>

(* traffic update, roadblock and traffic collisions, despawn and respawn,    *)
(* camera, win/lose                                                          *)
WorldStep ==
    /\ game.phase = "world"
    /\ LET moved == [i \in DOMAIN traffic |-> [traffic[i] EXCEPT !.distance = @ - traffic[i].speed]]
           c == check_traffic_collisions(moved, 1,
                    [player |-> roadblock_check(player, timers), police |-> police,
                     ghost_timer |-> timers.ghost_timer],
                    timers.shield_timer)
           kept == SelectSeq(moved, LAMBDA car : car.distance > -K(500))
       IN  /\ player' = c.player
           /\ police' = c.police
           /\ timers' = [timers EXCEPT !.ghost_timer = c.ghost_timer]
           /\ traffic' \in respawn(kept, Len(moved) - Len(kept), c.player.distance)
           /\ game' = check_win([game EXCEPT !.phase = next_phase(@), !.tick = @ + 1,
                                             !.camera_offset = c.player.distance,
                                             !.forgiven = forgiven_contact(@, roadblock_check(player, timers),
                                                                           moved, timers.ghost_timer)],
                                c.player, c.police)
    /\ UNCHANGED <<inp, out, power_ups, last>>

(* ------------------------------ initial states -------------------------- *)
(* The locals of main() at the head of a loop iteration. *)
Race(thief, cop, cars, pws, t) ==
    [player |-> thief, police |-> cop, traffic |-> cars, power_ups |-> pws, timers |-> t]

(* main() before the loop: both vehicles at SCREEN_WIDTH // 2 and at rest,   *)
(* the police 450 behind, traffic from 1000 on, the first thief power-up in  *)
(* [2000, 6000] and the first police power-up in [3000, 7000], no effect     *)
RaceStart ==
    {Race(Vehicle(K(SCREEN_WIDTH \div 2), 0, FALSE),
          Vehicle(K(SCREEN_WIDTH \div 2), -K(450), TRUE),
          <<TrafficCar(lane, K(1000), K(3)), TrafficCar(0, K(1400), K(2))>>,
          <<PowerUp(2, K(2000), "boost", FALSE), PowerUp(0, K(3000), "turbo", TRUE)>>,
          NoTimers) : lane \in {1}}

(* a vehicle in mid-race: its max_speed is the one its last turn computed    *)
(* and its speed respects the limits that turn enforced                      *)
Rolling(x, distance, speed, max_speed, is_police) ==
    [Vehicle(x, distance, is_police) EXCEPT !.speed = Min(speed, Min(max_speed, ABSOLUTE_MAX_SPEED)),
                                            !.max_speed = max_speed]

(* a vehicle that crashed at speed speed_before and has crash_timer ticks    *)
(* of the 60 left                                                            *)
Crashed(vehicle, speed_before, crash_timer) ==
    [vehicle EXCEPT !.crashed = TRUE, !.crash_timer = crash_timer,
                    !.speed = Times(speed_before, 300)]

(* cars given as <<lane, offset, speed>> relative to base *)
CarsAt(base, rel) == [i \in DOMAIN rel |-> TrafficCar(rel[i][1], base + rel[i][2], rel[i][3])]

(* a mid-race snapshot: the thief at base in lane thief_lane, the police gap *)
(* behind in lane cop_lane, both at full speed                               *)
Chase(base, thief_lane, gap, cop_lane, rel, pws, t) ==
    Race(Rolling(lane_positions(thief_lane), base, K(8), thief_max_speed(t), FALSE),
         Rolling(lane_positions(cop_lane), base - gap, K(8), police_max_speed(t), TRUE),
         CarsAt(base, rel), pws, t)

(* effects that can be running in mid-race *)
RunningEffects ==
    {NoTimers,
     [NoTimers EXCEPT !.boost_timer = 50],
     [NoTimers EXCEPT !.boost_timer = 1],
     [NoTimers EXCEPT !.freeze_timer = 50],
     [NoTimers EXCEPT !.turbo_timer = 50, !.freeze_timer = 20],
     [NoTimers EXCEPT !.spike_timer = 50],
     [NoTimers EXCEPT !.magnet_timer = 50],
     [NoTimers EXCEPT !.shield_timer = 50],
     [NoTimers EXCEPT !.ghost_timer = 1],
     [NoTimers EXCEPT !.roadblock_timer = 1, !.roadblock_lane = 0],
     [NoTimers EXCEPT !.emp_timer = 100]}

(* traffic around a thief in lane thief_lane with the police gap behind *)
TrafficNear(thief_lane, gap) ==
    {<<>>,
     <<<<thief_lane, K(60), K(3)>>>>,
     <<<<thief_lane, K(250), K(3)>>, <<2, K(150), K(2)>>>>,
     <<<<thief_lane, K(500), K(4)>>, <<0, K(60) - gap, K(3)>>>>,
     <<<<2, -K(3499), K(3)>>, <<1 - thief_lane, K(400), K(2)>>>>}

(* the thief position every snapshot is taken at *)
MidRace == K(3000)

ChaseSnapshots ==
    UNION {{Chase(MidRace, thief_lane, gap, 0, rel, <<>>, t) :
                t \in RunningEffects, rel \in TrafficNear(thief_lane, gap)} :
            thief_lane \in {0, 1}, gap \in {K(250), K(900)}}

(* a power-up of each kind about to be collected: a thief power-up just      *)
(* ahead of the thief in its lane, a police power-up where the police's      *)
(* screen position meets it                                                  *)
PickupSnapshots ==
    {Chase(MidRace, 1, K(250), 0, rel,
           <<PowerUp(1, MidRace + K(10), thief_power, FALSE),
             PowerUp(0, MidRace + K(250), police_power, TRUE)>>, NoTimers) :
        thief_power \in {"freeze", "boost", "shield", "ghost"},
        police_power \in {"spike", "emp", "turbo", "roadblock", "magnet"},
        rel \in {<<>>, <<<<1, K(300), K(3)>>>>}}

(* the thief pushed to the edge of the road by EMP jitter *)
EdgeSnapshots ==
    {[s EXCEPT !.player.x = x] :
        x \in {RoadLeft + K(1), RoadRight - K(1)},
        s \in {Chase(MidRace, 1, K(250), 0, <<>>, <<>>, [NoTimers EXCEPT !.emp_timer = 100])}}

(* a vehicle at the end of its crash, with traffic ahead of the thief *)
CrashSnapshots ==
    {[s EXCEPT !.player = Crashed(@, speed_before, crash_timer)] :
        speed_before \in {K(5), K(8)}, crash_timer \in {1, 2},
        s \in {Chase(MidRace, 1, K(900), 0, <<<<1, K(100), K(3)>>>>, <<>>, NoTimers)}}
    \cup {[s EXCEPT !.police = Crashed(@, K(8), 30)] :
            s \in {Chase(MidRace, 0, K(450), 0, <<>>, <<>>, NoTimers)}}

(* the two vehicles at mid range, the police closing in, the thief about to  *)
(* cross the finish line, and the police closing in on the thief while it    *)
(* crosses the line                                                          *)
EndgameSnapshots ==
    {Chase(MidRace, 0, K(450), 2, <<>>, <<>>, NoTimers),
     Chase(MidRace, 0, K(84), 0, <<>>, <<>>, [NoTimers EXCEPT !.emp_timer = 100, !.turbo_timer = 50]),
     Chase(K(FINISH_LINE_DISTANCE) - K(10), 1, K(250), 0, <<<<2, -K(50489), K(2)>>>>, <<>>, NoTimers),
     Chase(K(FINISH_LINE_DISTANCE) - K(5), 0, K(82), 0, <<>>, <<>>, [NoTimers EXCEPT !.emp_timer = 100, !.turbo_timer = 50])}

(* a power-up within reach of the micro-steering at mid and at long range *)
NudgeSnapshots ==
    {Chase(MidRace, 0, gap, 2, <<>>,
           <<PowerUp(1, MidRace + K(200), "shield", FALSE),
             PowerUp(1, MidRace - gap + K(200), "turbo", TRUE)>>, NoTimers) :
        gap \in {K(450), K(900)}}

Snapshots == ChaseSnapshots \cup PickupSnapshots \cup EdgeSnapshots \cup CrashSnapshots \cup EndgameSnapshots \cup NudgeSnapshots

Init ==
    /\ inp = <<>>
    /\ out = <<>>
    /\ \E s \in RaceStart \cup Snapshots :
        /\ player = s.player
        /\ police = s.police
        /\ traffic = s.traffic
        /\ power_ups = s.power_ups
        /\ timers = s.timers
        /\ game = [phase |-> "thief", tick |-> 0, camera_offset |-> s.player.distance,
                   running |-> TRUE, game_over |-> FALSE, winner |-> "none", forgiven |-> <<>>]
    /\ last = [who |-> "none"]

Next == Quit \/ ThiefTurn \/ CollectPowerups \/ PoliceTurn \/ WorldStep

Spec == Init /\ [][Next]_vars

(* ------------------------- properties of the race ----------------------- *)
Decided == last.who # "none"

(* C1: after every decision call of either vehicle, in every tick and        *)
(* whatever a power-up effect has made of max_speed, the vehicle's speed is  *)
(* at least 0 and at most min(max_speed, ABSOLUTE_MAX_SPEED)                 *)
C1_SpeedWithinLimits ==
    Decided => /\ 0 <= last.after.speed
               /\ last.after.speed <= Min(last.after.max_speed, ABSOLUTE_MAX_SPEED)

(* a decision taken in the tick in which an effect lowered max_speed below   *)
(* the speed the vehicle had, which leaves the vehicle at the new max_speed  *)
C1_Witness ==
    /\ Decided
    /\ last.ran # <<>>
    /\ last.before.max_speed < ABSOLUTE_MAX_SPEED
    /\ last.before.speed > last.before.max_speed
    /\ last.after.speed = last.after.max_speed

(* C2: after every decision call the vehicle's x lies within the road band   *)
(* [ROAD_X + 35, ROAD_X + ROAD_WIDTH - 35], whichever of power-up nudge,     *)
(* controller steering and emergency lane change ran                         *)
C2_StaysOnRoad ==
    Decided => /\ RoadLeft <= last.after.x
               /\ last.after.x <= RoadRight

(* a decision that leaves the vehicle exactly on the edge of the band *)
C2_Witness ==
    /\ Decided
    /\ last.ran # <<>>
    /\ last.after.x \in {RoadLeft, RoadRight}

(* C3: when the safety layer reports critical urgency at the start of an     *)
(* arbiter call, only the hard safety override runs (no power-up nudge, no   *)
(* Fuzzy, Minimax or A* controller) and the call changes x and speed exactly *)
(* as _execute_safety_override does                                          *)
C3_CriticalRunsOnlyOverride ==
    (Decided /\ last.urgency = "critical")
        => /\ last.ran = <<"safety_override">>
           /\ last.after.x = last.override.x
           /\ last.after.speed = last.override.speed

(* a critical call that braked and changed lane *)
C3_Witness ==
    /\ Decided
    /\ last.urgency = "critical"
    /\ last.ran = <<"safety_override">>
    /\ last.after.x # last.before.x
    /\ last.after.speed < last.before.speed

(* C5: whenever the arbiter executes the critical safety override, the speed *)
(* after the call is not higher than the speed before it                     *)
C5_OverrideNeverSpeedsUp ==
    (Decided /\ last.ran = <<"safety_override">>) => last.after.speed <= last.before.speed

(* the executor the dispatch rule names for an urgency and an opponent       *)
(* distance: safety for high or moderate urgency, else by distance           *)
ExecutorByRule(urgency, opponent_distance) ==
    IF urgency \in {"high", "moderate"} THEN "safety"
    ELSE IF opponent_distance < K(300) THEN "fuzzy"
    ELSE IF opponent_distance < K(800) THEN "minimax"
    ELSE "astar"

(* what ran in the last decision apart from the power-up micro-steering *)
ExecutorsRun == SelectSeq(last.ran, LAMBDA system : system # "power_nudge")

NewCrash == (player'.crashed /\ ~player.crashed) \/ (police'.crashed /\ ~police.crashed)

(* C22 as stated: a power-up is picked up and a collision is resolved only   *)
(* in the part of a tick that follows the decisions and moves of both        *)
(* vehicles.                                                                 *)
C22_ResolutionAfterBothMoved ==
    [][(power_ups' # power_ups \/ NewCrash) => game.phase = "world"]_vars

(* C22, amended: the sections of a tick follow each other in one fixed       *)
(* order: the thief decides and moves, power-ups are picked up by the thief  *)
(* and then by the police, the police decides and moves, collisions are      *)
(* resolved.  The pickups run after the thief's move and before the police's *)
(* decision and move, the collisions after the moves of both.                *)
C22_FixedOrderPickupsBetweenTurns ==
    [][/\ game'.phase # game.phase =>
            <<game.phase, game'.phase>> \in {<<"thief", "pickups">>, <<"pickups", "police">>,
                                            <<"police", "world">>, <<"world", "thief">>}
       /\ player'.distance # player.distance => game.phase = "thief"
       /\ power_ups' # power_ups => game.phase = "pickups"
       /\ police'.distance # police.distance => game.phase = "police"
       /\ NewCrash => game.phase = "world"
       /\ game'.tick # game.tick => game.phase = "world"]_vars

(* in the first tick both a thief and a police power-up have been picked up  *)
(* and the police has neither decided nor moved yet                          *)
C22_Witness ==
    /\ game.phase = "police"
    /\ game.tick = 0
    /\ player.distance > MidRace
    /\ police.distance = MidRace - K(250)
    /\ \E i, j \in DOMAIN power_ups :
            /\ power_ups[i].collected /\ power_ups[i].for_police
            /\ power_ups[j].collected /\ ~power_ups[j].for_police

(* the power-ups whose collected flag the step sets *)
NewlyCollected == {i \in DOMAIN power_ups : power_ups'[i].collected /\ ~power_ups[i].collected}

(* the effect timers started by the thief's and by the police's pickups *)
thief_timers(t) == <<t.freeze_timer, t.boost_timer, t.shield_timer>>

police_timers(t) == <<t.spike_timer, t.emp_timer, t.turbo_timer, t.roadblock_timer, t.magnet_timer>>

(* C23: collected is a one-way flag: a collected power-up stays collected    *)
(* and in the list, a power-up is collected only by the pickup loop of the   *)
(* vehicle of its own role, at that vehicle's screen position, and a         *)
(* collected power-up is not picked up a second time: in the pickup section  *)
(* an effect timer of a role is started only when a power-up of that role    *)
(* is newly collected.                                                       *)
C23_CollectedOnceByOwnRole ==
    [][/\ DOMAIN power_ups' = DOMAIN power_ups
       /\ \A i \in DOMAIN power_ups : power_ups[i].collected => power_ups'[i].collected
       /\ \A i \in NewlyCollected :
            /\ game.phase = "pickups"
            /\ IF power_ups[i].for_police
               THEN check_collision(power_ups[i], police.x,
                                    police.distance - game.camera_offset + K(SCREEN_HEIGHT \div 2),
                                    game.camera_offset)
               ELSE check_collision(power_ups[i], player.x, K(SCREEN_HEIGHT \div 2),
                                    game.camera_offset)
       /\ game.phase = "pickups" =>
            /\ thief_timers(timers') # thief_timers(timers)
                  => \E i \in NewlyCollected : ~power_ups[i].for_police
            /\ police_timers(timers') # police_timers(timers)
                  => \E i \in NewlyCollected : power_ups[i].for_police
            /\ timers'.ghost_timer # timers.ghost_timer
                  => \E i \in NewlyCollected : power_ups[i].type = "ghost" /\ ~power_ups[i].for_police]_vars

(* the thief's screen position is within reach of power-up i *)
check_collision_in_reach(i) ==
    check_collision([power_ups[i] EXCEPT !.collected = FALSE], player.x, K(SCREEN_HEIGHT \div 2),
                    game.camera_offset)

(* the second tick's pickup section has passed over a thief power-up that    *)
(* was collected in the first tick and is still within reach of the thief:   *)
(* its timer has kept running                                                *)
C23_Witness ==
    /\ game.phase = "police"
    /\ game.tick = 1
    /\ \E i \in DOMAIN power_ups :
            /\ power_ups[i].collected
            /\ ~power_ups[i].for_police
            /\ power_ups[i].type = "freeze"
            /\ check_collision_in_reach(i)
    /\ timers.freeze_timer = 149

(* C24: at the end of a tick (the head of the next loop iteration) no       *)
(* traffic car is more than 500 behind the camera, which is at the thief's   *)
(* distance.                                                                 *)
C24_NoCarFarBehindCamera ==
    (game.phase = "thief" /\ game.tick >= 1) =>
        /\ game.camera_offset = player.distance
        /\ \A i \in DOMAIN traffic : traffic[i].distance > game.camera_offset - K(500)

(* ----------------------------- crash scenario -------------------------- *)
(* One vehicle of either role driving into traffic, followed through the     *)
(* loop body for more than one whole crash: its turn (the decision, which    *)
(* main() skips for a crashed police and which returns at once for a crashed *)
(* thief, then distance += speed and update_crash), and the world step (the  *)
(* cars move, the collisions are checked).  calls counts the update_crash    *)
(* calls since the last crash(), crashes the crash() calls.                  *)
MaxCrashTicks == 64

InitCrash ==
    /\ inp \in [is_police : BOOLEAN, speed : {0, K(5), K(8)}, second_car : {K(330), K(360), K(2000)}]
    /\ out = [kind |-> "crash", phase |-> "turn", tick |-> 0, calls |-> 0, crashes |-> 0,
              vehicle |-> Rolling(lane_positions(1), MidRace, inp.speed, K(8), inp.is_police),
              cars |-> CarsAt(MidRace, <<<<1, K(40), K(3)>>, <<1, inp.second_car, K(3)>>>>)]
    /\ NoRace

CrashTurn ==
    /\ out.kind = "crash"
    /\ out.phase = "turn"
    /\ out.tick < MaxCrashTicks
    /\ \E outcome \in (IF out.vehicle.is_police /\ out.vehicle.crashed THEN {Outcome(out.vehicle, <<>>)} ELSE priority_decision_hierarchy(out.vehicle, out.cars, <<>>, NoOpponent, FALSE, IF out.vehicle.is_police THEN "euclidean" ELSE "manhattan")) :
        LET decided == outcome.vehicle
        IN  out' = [out EXCEPT !.phase = "world",
                               !.calls = IF out.vehicle.crashed THEN @ + 1 ELSE @,
                               !.vehicle = update_crash([decided EXCEPT !.distance = @ + decided.speed])]
    /\ UNCHANGED <<inp, race_vars>>

CrashWorld ==
    /\ out.kind = "crash"
    /\ out.phase = "world"
    /\ LET moved == [i \in DOMAIN out.cars |-> [out.cars[i] EXCEPT !.distance = @ - out.cars[i].speed]]
           c == check_traffic_collisions(moved, 1,
                    [player |-> out.vehicle, police |-> out.vehicle, ghost_timer |-> 0], 0)
           collided == IF out.vehicle.is_police THEN c.police ELSE c.player
           crash_called == collided # out.vehicle
       IN  out' = [out EXCEPT !.phase = "turn",
                              !.tick = @ + 1,
                              !.cars = moved,
                              !.vehicle = collided,
                              !.calls = IF crash_called /\ ~out.vehicle.crashed THEN 0 ELSE @,
                              !.crashes = IF crash_called THEN Min(@ + 1, 3) ELSE @]
    /\ UNCHANGED <<inp, race_vars>>

NextCrash == CrashTurn \/ CrashWorld

SpecCrash == InitCrash /\ [][NextCrash]_vars

(* C25: crashed holds exactly while crash_timer > 0; a crashed vehicle has   *)
(* had 60 - crash_timer update_crash calls since its crash(), so it is       *)
(* crashed through the first 59 of them and the 60th clears the flag; a      *)
(* vehicle that has recovered from a crash had 60 such calls.                *)
C25_CrashLasts60Calls ==
    out.kind = "crash" =>
        /\ out.vehicle.crashed <=> out.vehicle.crash_timer > 0
        /\ out.vehicle.crashed => out.vehicle.crash_timer = 60 - out.calls
        /\ (~out.vehicle.crashed /\ out.crashes > 0) => out.calls = 60

(* the vehicle went through a whole crash, recovered and has crashed again   *)
(* into the second car; it is half-way through the second crash              *)
C25_Witness ==
    /\ out.kind = "crash"
    /\ out.crashes = 2
    /\ out.vehicle.crashed
    /\ out.vehicle.crash_timer = 58
    /\ out.tick > 60

(* C27: the ghost forgiveness covers the whole contact with the car that    *)
(* consumed it: the thief, not crashed and still overlapping that car when   *)
(* the collisions of a later tick are checked, is not crashed by them.       *)
C27_GhostForgivesWholeContact ==
    [][(/\ game.phase = "world"
        /\ game.forgiven # <<>>
        /\ ~player.crashed
        /\ overlaps(player, updated(game.forgiven)))
          => ~player'.crashed]_vars

(* the number of ticks after which a car ahead is reached when the vehicle   *)
(* keeps its speed: per tick the vehicle advances by its speed               *)
(* (distance += speed) and the car comes back by its own (distance -= speed) *)
ticks_until_met(vehicle, car) ==
    LET closing == vehicle.speed + car.speed
    IN  (car.distance - vehicle.distance + closing - 1) \div closing

(* C28: for every traffic car ahead in the vehicle's lane and inside the     *)
(* prediction window that comes closer from tick to tick, the reported       *)
(* time_to_collision is finite and not larger than the number of ticks until *)
(* the two positions meet.                                                   *)
C28_TimeToCollisionNotOverestimated ==
    out.kind = "safety" =>
        \A i \in DOMAIN inp.traffic :
            (/\ inp.traffic[i].lane = get_lane_from_x(inp.vehicle.x)
             /\ in_prediction_window(inp.vehicle, inp.traffic[i])
             /\ inp.vehicle.speed + inp.traffic[i].speed > 0)
                => /\ out.check.time_to_collision < Infinity
                   /\ out.check.time_to_collision <= K(ticks_until_met(inp.vehicle, inp.traffic[i]))

(* the capture tests of "Check win/lose conditions" on the positions at the  *)
(* end of a tick                                                             *)
capture_condition ==
    \/ police.distance >= player.distance - K(20)
    \/ /\ Abs(player.distance - police.distance) < K(80)
       /\ Abs(player.x - police.x) < K(100)

(* C29: when the capture condition holds at the end of a tick, the race is   *)
(* over and the police is the declared winner, also when the thief has       *)
(* crossed the finish line in that tick.                                     *)
C29_CaptureMeansPoliceWins ==
    (game.phase = "thief" /\ game.tick >= 1 /\ capture_condition) =>
        /\ game.game_over
        /\ game.winner = "police"

(* C30: the police collects a police power-up only where the police itself  *)
(* is: its track position within the pickup range of 47 of the power-up's    *)
(* distance and its x within that range of the power-up's lane center.       *)
C30_PoliceCollectsAtOwnPosition ==
    [][\A i \in NewlyCollected :
            power_ups[i].for_police =>
                /\ Abs(police.distance - power_ups[i].distance) < K(45 \div 2 + 50 \div 2)
                /\ Abs(police.x - lane_positions(power_ups[i].lane)) < K(45 \div 2 + 50 \div 2)]_vars

====
